---- MODULE Spec2Model ----
(***************************************************************************)
(* RubricFinder: the RubricEmbedder wrapper (src/src/embedder.py) over a   *)
(* Qdrant collection and a sentence-embedding model.                       *)
(*                                                                         *)
(* The persisted store is one named collection of points, keyed by an      *)
(* integer point id.  A process (one RubricEmbedder instance in one Python *)
(* interpreter) derives the point id of a rubric from Python's hash() of   *)
(* the rubric's string id; str hashes are salted per interpreter, so each  *)
(* process has its own hash function.                                      *)
(*                                                                         *)
(* Around the embedder: the search API and the frontend (src/api.py,       *)
(* frontend/app.py), the evaluation harness (scripts/evaluate_search.py),  *)
(* the A/B comparison (scripts/compare_embeddings.py) and the LLM          *)
(* pipelines (scripts/translate_rubrics.py, generate_test_sentences.py),   *)
(* each followed by a specification of its own.                            *)
(***************************************************************************)
EXTENDS Integers, Sequences, FiniteSets, TLC

\* ------------------------------------------------------------------ bounds
\* Longest rubrics list handed to add_rubrics.
MaxLen == 2
\* Largest top_k handed to search.
MaxTopK == 2

\* ------------------------------------------------------- program constants
DEFAULT_COLLECTION == "rubrics"
VECTOR_SIZE == 384
\* BATCH_SIZE is 500 in the source; scaled so that a list of MaxLen + 1
\* records is split into more than one batch.
BATCH_SIZE == 2
\* The page size of get_existing_ids' scroll is 1000 in the source; scaled
\* so that a collection of two points takes two pages.
SCROLL_LIMIT == 1
\* Python's str hash is a signed 64-bit integer and the mask is 2^63 - 1;
\* scaled to a signed HashBits-bit integer and the mask 2^(HashBits-1) - 1.
HashBits == 2
HASH_MASK == 2 ^ (HashBits - 1) - 1

\* ------------------------------------------------------------ value spaces
HashRange == (0 - 2 ^ (HashBits - 1)) .. (2 ^ (HashBits - 1) - 1)
PointIds == 0 .. HASH_MASK

Ids == {"1", "2"}
TextFields == {"translation", "path"}

\* RubricData records the ingestion pipeline can hand over: two versions of
\* rubric "1" (re-translated, the second without remedy_count) and a rubric
\* "2" whose translation is the same text as the first version of "1".
Rubric1 ==
    [id |-> "1", path |-> "Mind, fear, dark", translation |-> "afraid of the dark",
     chapter |-> "Mind", remedy_count |-> 12]
Rubric1b ==
    [id |-> "1", path |-> "Mind, fear, dark", translation |-> "scared in darkness",
     chapter |-> "Mind"]
Rubric2 ==
    [id |-> "2", path |-> "Mind, anxiety, night", translation |-> "afraid of the dark",
     chapter |-> "Mind"]
Catalog == {Rubric1, Rubric1b, Rubric2}

Queries == {"afraid of the dark", "scared in darkness", "cheerful at noon"}

RECURSIVE SeqsUpTo(_, _)
SeqsUpTo(S, n) ==
    IF n = 0 THEN {<<>>}
    ELSE LET shorter == SeqsUpTo(S, n - 1)
         IN shorter \cup {Append(s, x) : s \in {t \in shorter : Len(t) = n - 1}, x \in S}
RubricLists == SeqsUpTo(Catalog, MaxLen)

Range(s) == {s[i] : i \in DOMAIN s}
Min(a, b) == IF a < b THEN a ELSE b
Max(a, b) == IF a > b THEN a ELSE b

\* ------------------------------------------------------ embedding provider
\* SentenceTransformer.encode as a pure function from text to a unit vector,
\* given by its direction in steps of 30 degrees.
Directions == 0 .. 11
encode(text) ==
    CASE text = "afraid of the dark"   -> 0
      [] text = "Mind, anxiety, night" -> 1
      [] text = "Mind, fear, dark"     -> 2
      [] text = "scared in darkness"   -> 11
      [] text = "cheerful at noon"     -> 6
      [] OTHER                         -> 3

\* Cosine similarity of two unit vectors, in units of 10^-5.
Cosine(u, v) ==
    LET d == IF u >= v THEN u - v ELSE v - u
        a == IF d > 6 THEN 12 - d ELSE d
    IN CASE a = 0 -> 100000
         [] a = 1 -> 86603
         [] a = 2 -> 50000
         [] a = 3 -> 0
         [] a = 4 -> 0 - 50000
         [] a = 5 -> 0 - 86603
         [] a = 6 -> 0 - 100000

\* round(score, 4): from units of 10^-5 to units of 10^-4, half to even.
round(x) ==
    LET q == x \div 10
        r == x % 10
    IN IF r < 5 THEN q
       ELSE IF r > 5 THEN q + 1
       ELSE IF q % 2 = 0 THEN q ELSE q + 1

\* ------------------------------------------------------------------- state
VARIABLES
    collections,    \* the store: collection name -> its vector configuration
    points,         \* the points of the "rubrics" collection: point id -> point
    hashOf,         \* this process's str hash: rubric id -> hash value
    call,           \* the last operation called and its scalar arguments
    ret,            \* what it returned
    before,         \* count() as the last operation found it
    run,            \* one add_rubrics or search call, request by request
    eval,           \* the evaluation harness (scripts/evaluate_search.py)
    http,           \* the search API and the frontend (src/api.py, frontend/app.py)
    pipe,           \* the LLM pipelines (scripts/translate_rubrics.py and others)
    cmp,            \* the A/B comparison (scripts/compare_embeddings.py)
    app             \* the API process: its module-level _embedder (src/api.py)

vars == <<collections, points, hashOf, call, ret, before, run, eval, http, pipe, cmp, app>>

\* The embedder's call history, and the state of the programs around it.
history == <<call, ret, before>>
others == <<run, eval, http, pipe, cmp, app>>
Idle == [pc |-> "idle"]
\* The API module as imported: _embedder is None, nothing constructed yet.
NoInstance == <<>>
Unconstructed == [_embedder |-> NoInstance, constructed |-> 0, failed |-> 0]

VectorParams == [size |-> VECTOR_SIZE, distance |-> "Cosine"]
NoPoints == [p \in {} |-> 0]
None == "None"
NoOffset == <<>>

\* ------------------------------------------------------------ vector store
\* QdrantClient.upsert: each point in order, inserted or overwritten by id.
RECURSIVE upsert(_, _)
upsert(pts, batch) ==
    IF batch = <<>> THEN pts
    ELSE upsert((Head(batch).id :> Head(batch)) @@ pts, Tail(batch))

\* info.points_count
count(pts) == Cardinality(DOMAIN pts)

RECURSIVE SortedIds(_)
SortedIds(S) ==
    IF S = {} THEN <<>>
    ELSE LET m == CHOOSE x \in S : \A y \in S : x <= y
         IN <<m>> \o SortedIds(S \ {m})

\* QdrantClient.scroll: one page of at most `limit` points in point id order
\* from `offset` on, and the id of the next point.  An offset is <<id>>, or
\* NoOffset for Python's None (the first page; the scan exhausted).
scroll(pts, limit, offset) ==
    LET from == IF offset = NoOffset THEN DOMAIN pts
                ELSE {p \in DOMAIN pts : p >= offset[1]}
        ids == SortedIds(from)
        page == SubSeq(ids, 1, Min(limit, Len(ids)))
    IN [result |-> [i \in DOMAIN page |-> pts[page[i]]],
        offset |-> IF Len(ids) > limit THEN <<ids[limit + 1]>> ELSE NoOffset]

\* QdrantClient.query_points: the `limit` nearest points by cosine similarity,
\* best first; equal scores in point id order.
Better(pts, q, a, b) ==
    \/ Cosine(q, pts[a].vector) > Cosine(q, pts[b].vector)
    \/ Cosine(q, pts[a].vector) = Cosine(q, pts[b].vector) /\ a < b

RECURSIVE Ranked(_, _, _)
Ranked(pts, q, S) ==
    IF S = {} THEN <<>>
    ELSE LET best == CHOOSE a \in S : \A b \in S \ {a} : Better(pts, q, a, b)
         IN <<best>> \o Ranked(pts, q, S \ {best})

\* Mutant of query_points: the query vector is not used, the first `limit`
\* points come back in point id order.
query_pointsUnranked(pts, q, limit) ==
    LET order == SortedIds(DOMAIN pts)
        hits == SubSeq(order, 1, Min(limit, Len(order)))
    IN [i \in DOMAIN hits |->
            [payload |-> pts[hits[i]].payload, score |-> Cosine(q, pts[hits[i]].vector)]]

query_points(pts, q, limit) ==
    LET order == Ranked(pts, q, DOMAIN pts)
        hits == SubSeq(order, 1, Min(limit, Len(order)))
    IN [i \in DOMAIN hits |->
            [payload |-> pts[hits[i]].payload, score |-> Cosine(q, pts[hits[i]].vector)]]

\* ---------------------------------------------------------- RubricEmbedder
\* Mutant of PointId: the hash as it is, sign included.
PointIdUnmasked(h, id) == h[id]

\* hash(r["id"]) & 0x7FFFFFFFFFFFFFFF
PointId(h, id) == h[id] % (HASH_MASK + 1)

\* Mutant of ScrollAll: the first page only, the cursor is not followed.
RECURSIVE ScrollAllFirstPage(_, _)
ScrollAllFirstPage(pts, offset) ==
    LET page == scroll(pts, SCROLL_LIMIT, offset)
    IN [i \in DOMAIN page.result |-> page.result[i].payload.rubric_id]

RECURSIVE ScrollAll(_, _)
ScrollAll(pts, offset) ==
    LET page == scroll(pts, SCROLL_LIMIT, offset)
        ids == [i \in DOMAIN page.result |-> page.result[i].payload.rubric_id]
    IN IF page.offset = NoOffset THEN ids ELSE ids \o ScrollAll(pts, page.offset)

get_existing_ids(pts) ==
    IF count(pts) = 0 THEN <<>> ELSE ScrollAll(pts, NoOffset)

\* Mutant of PointStruct: the payload's translation is the embedded text.
PointStructEmbeddedText(h, r, text_field) ==
    [id |-> PointId(h, r.id),
     vector |-> encode(r[text_field]),
     payload |-> [rubric_id |-> r.id,
                  path |-> r.path,
                  translation |-> r[text_field],
                  chapter |-> r.chapter,
                  remedy_count |-> IF "remedy_count" \in DOMAIN r THEN r.remedy_count ELSE 0]]

PointStruct(h, r, text_field) ==
    [id |-> PointId(h, r.id),
     vector |-> encode(r[text_field]),
     payload |-> [rubric_id |-> r.id,
                  path |-> r.path,
                  translation |-> r.translation,
                  chapter |-> r.chapter,
                  remedy_count |-> IF "remedy_count" \in DOMAIN r THEN r.remedy_count ELSE 0]]

\* The batch loop of add_rubrics from record i on, `added` counted so far.
RECURSIVE AddBatches(_, _, _, _, _, _)
AddBatches(pts, h, rubrics, text_field, i, added) ==
    IF i > Len(rubrics) THEN [points |-> pts, ret |-> added]
    ELSE LET batch == SubSeq(rubrics, i, Min(i + BATCH_SIZE - 1, Len(rubrics)))
             structs == [j \in DOMAIN batch |-> PointStruct(h, batch[j], text_field)]
         IN AddBatches(upsert(pts, structs), h, rubrics, text_field,
                       i + BATCH_SIZE, added + Len(batch))

SkipFilter(pts, rubrics, skip_existing) ==
    IF skip_existing
    THEN LET existing_ids == Range(get_existing_ids(pts))
         IN SelectSeq(rubrics, LAMBDA r : r.id \notin existing_ids)
    ELSE rubrics

add_rubrics(pts, h, rubrics, skip_existing, text_field) ==
    LET todo == SkipFilter(pts, rubrics, skip_existing)
    IN IF todo = <<>> THEN [points |-> pts, ret |-> 0]
       ELSE AddBatches(pts, h, todo, text_field, 1, 0)

\* Mutant of SearchLimit: max where the source has min.
SearchLimitMax(pts, top_k) == Max(top_k, Max(1, count(pts)))

SearchLimit(pts, top_k) == Min(top_k, Max(1, count(pts)))

Reverse(s) == [i \in DOMAIN s |-> s[Len(s) + 1 - i]]

ResultDict(hit) ==
    [rubric_id |-> hit.payload.rubric_id,
     path |-> hit.payload.path,
     translation |-> hit.payload.translation,
     chapter |-> hit.payload.chapter,
     remedy_count |-> hit.payload.remedy_count,
     score |-> round(hit.score)]

\* Mutant of search: the hits are returned worst first.
searchReversed(pts, query, top_k) ==
    LET hits == query_points(pts, encode(query), SearchLimit(pts, top_k))
    IN Reverse([i \in DOMAIN hits |-> ResultDict(hits[i])])

search(pts, query, top_k) ==
    LET hits == query_points(pts, encode(query), SearchLimit(pts, top_k))
    IN [i \in DOMAIN hits |-> ResultDict(hits[i])]

\* _ensure_collection: the collections of the store afterwards.
_ensure_collection(colls) ==
    IF DEFAULT_COLLECTION \in DOMAIN colls THEN colls
    ELSE (DEFAULT_COLLECTION :> VectorParams) @@ colls

\* Mutant of EnsureStore: create_collection whether or not the collection is
\* there.
EnsureStoreRecreates(colls, pts) ==
    [collections |-> (DEFAULT_COLLECTION :> VectorParams) @@
                        [c \in DOMAIN colls \ {DEFAULT_COLLECTION} |-> colls[c]],
     points |-> NoPoints,
     created |-> TRUE]

\* The store after _ensure_collection: create_collection makes an empty
\* collection, and is called only when the name is not among the collections.
EnsureStore(colls, pts) ==
    LET present == DEFAULT_COLLECTION \in DOMAIN colls
    IN [collections |-> _ensure_collection(colls),
        points |-> IF present THEN pts ELSE NoPoints,
        created |-> ~present]

\* ----------------------------------------------------------------- actions
\* A fresh store directory and the first RubricEmbedder constructed over it.
Init ==
    /\ collections = _ensure_collection([c \in {} |-> VectorParams])
    /\ points = NoPoints
    /\ hashOf \in [Ids -> HashRange]
    /\ call = [op |-> "__init__", created |-> TRUE]
    /\ ret = None
    /\ before = 0
    /\ run = Idle
    /\ eval = Idle
    /\ http = Idle
    /\ pipe = Idle
    /\ cmp = Idle
    /\ app = Unconstructed

\* The process ends; a new interpreter constructs a RubricEmbedder over the
\* same store.
Construct ==
    LET store == EnsureStore(collections, points)
    IN /\ hashOf' \in [Ids -> HashRange]
       /\ collections' = store.collections
       /\ points' = store.points
       /\ call' = [op |-> "__init__", created |-> store.created]
       /\ ret' = None
       /\ before' = count(points)
       /\ UNCHANGED others

AddRubrics(rubrics, skip_existing, text_field) ==
    LET r == add_rubrics(points, hashOf, rubrics, skip_existing, text_field)
    IN /\ points' = r.points
       /\ ret' = r.ret
       /\ call' = [op |-> "add_rubrics"]
       /\ before' = count(points)
       /\ UNCHANGED <<collections, hashOf, others>>

\* Mutant of Search: the query is kept in the collection as a point.
SearchStoresQuery(query, top_k) ==
    /\ ret' = search(points, query, top_k)
    /\ points' = (0 :> [id |-> 0, vector |-> encode(query),
                        payload |-> [rubric_id |-> "1", path |-> query,
                                     translation |-> query, chapter |-> "Mind",
                                     remedy_count |-> 0]]) @@ points
    /\ call' = [op |-> "search", query |-> query, top_k |-> top_k]
    /\ before' = count(points)
    /\ UNCHANGED <<collections, hashOf, others>>

Search(query, top_k) ==
    /\ ret' = search(points, query, top_k)
    /\ call' = [op |-> "search", query |-> query, top_k |-> top_k]
    /\ before' = count(points)
    /\ UNCHANGED <<collections, points, hashOf, others>>

GetExistingIds ==
    /\ ret' = get_existing_ids(points)
    /\ call' = [op |-> "get_existing_ids"]
    /\ before' = count(points)
    /\ UNCHANGED <<collections, points, hashOf, others>>

Count ==
    /\ ret' = count(points)
    /\ call' = [op |-> "count"]
    /\ before' = count(points)
    /\ UNCHANGED <<collections, points, hashOf, others>>

\* Mutant of Clear: the collection is created only when it is absent, as in
\* _ensure_collection, and never dropped.
ClearKeepsPoints ==
    /\ collections' = _ensure_collection(collections)
    /\ call' = [op |-> "clear"]
    /\ ret' = None
    /\ before' = count(points)
    /\ UNCHANGED <<points, hashOf, others>>

\* clear: delete_collection, then create_collection with the same parameters.
Clear ==
    LET dropped == [c \in DOMAIN collections \ {DEFAULT_COLLECTION} |-> collections[c]]
    IN /\ collections' = (DEFAULT_COLLECTION :> VectorParams) @@ dropped
       /\ points' = NoPoints
       /\ call' = [op |-> "clear"]
       /\ ret' = None
       /\ before' = count(points)
       /\ UNCHANGED <<hashOf, others>>

Next ==
    \/ Construct
    \/ \E rubrics \in RubricLists, skip_existing \in BOOLEAN, text_field \in TextFields :
            AddRubrics(rubrics, skip_existing, text_field)
    \/ \E query \in Queries, top_k \in 1 .. MaxTopK : Search(query, top_k)
    \/ GetExistingIds
    \/ Count
    \/ Clear

Spec == Init /\ [][Next]_vars

\* ------------------------------------------- one call, request by request
\* The embedder calls its embedding provider (SentenceTransformer.encode) and
\* its vector store (get_collection, scroll, upsert, query_points).  Any of
\* these requests can raise; a fault names the request of the call that
\* raises (`at`, counted from 1; 0 for none), the exception, and, for an
\* upsert, how many leading points of the batch the store had written when
\* the request raised.
Failures == {"ConnectionError", "TimeoutError"}
NoFault == [at |-> 0, error |-> None, applied |-> 0]
NoValue == <<>>
\* Longest rubrics list of a call followed request by request: one record
\* more than MaxLen, so that the list splits into more than one batch.
RunLists == SeqsUpTo(Catalog, MaxLen + 1)

Request(kind, arg) == [kind |-> kind, arg |-> arg]

\* get_existing_ids, the scroll loop: `ids` gathered and `issued` so far.
RECURSIVE ScrollAllRun(_, _, _, _, _)
ScrollAllRun(pts, offset, ids, fault, issued) ==
    LET requests == Append(issued, Request("scroll", offset))
        page == scroll(pts, SCROLL_LIMIT, offset)
        more == ids \o [i \in DOMAIN page.result |-> page.result[i].payload.rubric_id]
    IN IF fault.at = Len(requests)
       THEN [ids |-> <<>>, raised |-> fault.error, requests |-> requests]
       ELSE IF page.offset = NoOffset
            THEN [ids |-> more, raised |-> None, requests |-> requests]
            ELSE ScrollAllRun(pts, page.offset, more, fault, requests)

get_existing_idsRun(pts, fault, issued) ==
    LET requests == Append(issued, Request("get_collection", NoOffset))
    IN IF fault.at = Len(requests)
       THEN [ids |-> <<>>, raised |-> fault.error, requests |-> requests]
       ELSE IF count(pts) = 0
            THEN [ids |-> <<>>, raised |-> None, requests |-> requests]
            ELSE ScrollAllRun(pts, NoOffset, <<>>, fault, requests)

\* Mutant of AddBatchesRun: a batch whose embedding or upsert request raises
\* is left out and the loop goes on with the next batch.
RECURSIVE AddBatchesRunSkipsFailed(_, _, _, _, _, _, _, _)
AddBatchesRunSkipsFailed(pts, h, rubrics, text_field, i, added, fault, issued) ==
    IF i > Len(rubrics)
    THEN [points |-> pts, returned |-> IF fault.at = 0 THEN <<added>> ELSE NoValue,
          raised |-> fault.error, requests |-> issued]
    ELSE LET batch == SubSeq(rubrics, i, Min(i + BATCH_SIZE - 1, Len(rubrics)))
             structs == [j \in DOMAIN batch |-> PointStruct(h, batch[j], text_field)]
             encoded == Append(issued, Request("encode", <<i, Len(batch)>>))
             upserted == Append(encoded, Request("upsert", <<i, Len(structs)>>))
         IN IF fault.at = Len(encoded)
            THEN AddBatchesRunSkipsFailed(pts, h, rubrics, text_field,
                                          i + BATCH_SIZE, added, fault, encoded)
            ELSE IF fault.at = Len(upserted)
                 THEN AddBatchesRunSkipsFailed(
                          upsert(pts, SubSeq(structs, 1, fault.applied)), h, rubrics,
                          text_field, i + BATCH_SIZE, added, fault, upserted)
                 ELSE AddBatchesRunSkipsFailed(
                          upsert(pts, structs), h, rubrics, text_field,
                          i + BATCH_SIZE, added + Len(batch), fault, upserted)

\* Mutant of AddBatchesRun: the records from i on go out as one batch.
RECURSIVE AddBatchesRunUnbatched(_, _, _, _, _, _, _, _)
AddBatchesRunUnbatched(pts, h, rubrics, text_field, i, added, fault, issued) ==
    IF i > Len(rubrics)
    THEN [points |-> pts, returned |-> <<added>>, raised |-> None, requests |-> issued]
    ELSE LET batch == SubSeq(rubrics, i, Len(rubrics))
             structs == [j \in DOMAIN batch |-> PointStruct(h, batch[j], text_field)]
             encoded == Append(issued, Request("encode", <<i, Len(batch)>>))
             upserted == Append(encoded, Request("upsert", <<i, Len(structs)>>))
         IN IF fault.at = Len(encoded)
            THEN [points |-> pts, returned |-> NoValue,
                  raised |-> fault.error, requests |-> encoded]
            ELSE IF fault.at = Len(upserted)
                 THEN [points |-> upsert(pts, SubSeq(structs, 1, fault.applied)),
                       returned |-> NoValue,
                       raised |-> fault.error, requests |-> upserted]
                 ELSE AddBatchesRunUnbatched(upsert(pts, structs), h, rubrics, text_field,
                                             Len(rubrics) + 1, added + Len(batch), fault,
                                             upserted)

\* The batch loop of add_rubrics from record i on: an exception of encode or
\* of upsert leaves the loop and the method.  A request is logged with the
\* index of its batch's first record and the number of texts or points it
\* carries.
RECURSIVE AddBatchesRun(_, _, _, _, _, _, _, _)
AddBatchesRun(pts, h, rubrics, text_field, i, added, fault, issued) ==
    IF i > Len(rubrics)
    THEN [points |-> pts, returned |-> <<added>>, raised |-> None, requests |-> issued]
    ELSE LET batch == SubSeq(rubrics, i, Min(i + BATCH_SIZE - 1, Len(rubrics)))
             structs == [j \in DOMAIN batch |-> PointStruct(h, batch[j], text_field)]
             encoded == Append(issued, Request("encode", <<i, Len(batch)>>))
             upserted == Append(encoded, Request("upsert", <<i, Len(structs)>>))
         IN IF fault.at = Len(encoded)
            THEN [points |-> pts, returned |-> NoValue,
                  raised |-> fault.error, requests |-> encoded]
            ELSE IF fault.at = Len(upserted)
                 THEN [points |-> upsert(pts, SubSeq(structs, 1, fault.applied)),
                       returned |-> NoValue,
                       raised |-> fault.error, requests |-> upserted]
                 ELSE AddBatchesRun(upsert(pts, structs), h, rubrics, text_field,
                                    i + BATCH_SIZE, added + Len(batch), fault, upserted)

\* Mutant of add_rubricsRun: the value returned is the growth of count().
add_rubricsRunCountsNew(pts, h, rubrics, skip_existing, text_field, fault) ==
    LET scan == IF skip_existing THEN get_existing_idsRun(pts, fault, <<>>)
                ELSE [ids |-> <<>>, raised |-> None, requests |-> <<>>]
        todo == IF skip_existing
                THEN SelectSeq(rubrics, LAMBDA r : r.id \notin Range(scan.ids))
                ELSE rubrics
        r == IF scan.raised # None
             THEN [points |-> pts, returned |-> NoValue,
                   raised |-> scan.raised, requests |-> scan.requests]
             ELSE IF todo = <<>>
                  THEN [points |-> pts, returned |-> <<0>>,
                        raised |-> None, requests |-> scan.requests]
                  ELSE AddBatchesRun(pts, h, todo, text_field, 1, 0, fault, scan.requests)
    IN IF r.raised = None
       THEN [r EXCEPT !.returned = <<count(r.points) - count(pts)>>]
       ELSE r

add_rubricsRun(pts, h, rubrics, skip_existing, text_field, fault) ==
    LET scan == IF skip_existing THEN get_existing_idsRun(pts, fault, <<>>)
                ELSE [ids |-> <<>>, raised |-> None, requests |-> <<>>]
        todo == IF skip_existing
                THEN SelectSeq(rubrics, LAMBDA r : r.id \notin Range(scan.ids))
                ELSE rubrics
    IN IF scan.raised # None
       THEN [points |-> pts, returned |-> NoValue,
             raised |-> scan.raised, requests |-> scan.requests]
       ELSE IF todo = <<>>
            THEN [points |-> pts, returned |-> <<0>>,
                  raised |-> None, requests |-> scan.requests]
            ELSE AddBatchesRun(pts, h, todo, text_field, 1, 0, fault, scan.requests)

\* Mutant of searchRun: a request that raises is issued a second time, and
\* the call raises when that one has raised too.
searchRunRetries(pts, query, top_k, fault) ==
    LET encoded == <<Request("encode", <<>>)>>
        counted == Append(encoded, Request("get_collection", <<>>))
        queried == Append(counted, Request("query_points", <<>>))
        plan == [n \in 1 .. 3 |-> SubSeq(queried, 1, n)]
    IN IF fault.at \in 1 .. 3
       THEN [points |-> pts, returned |-> NoValue, raised |-> fault.error,
             requests |-> Append(plan[fault.at], queried[fault.at])]
       ELSE [points |-> pts, returned |-> <<search(pts, query, top_k)>>,
             raised |-> None, requests |-> queried]

\* search: encode the query, count() for the limit, query_points.
searchRun(pts, query, top_k, fault) ==
    LET encoded == <<Request("encode", <<>>)>>
        counted == Append(encoded, Request("get_collection", <<>>))
        queried == Append(counted, Request("query_points", <<>>))
        plan == [n \in 1 .. 3 |-> SubSeq(queried, 1, n)]
    IN IF fault.at \in 1 .. 3
       THEN [points |-> pts, returned |-> NoValue, raised |-> fault.error,
             requests |-> plan[fault.at]]
       ELSE [points |-> pts, returned |-> <<search(pts, query, top_k)>>,
             raised |-> None, requests |-> queried]

\* The faults a call can meet, given the requests it issues when none raises
\* and the number of records it has to upsert.
Faults(requests, todo) ==
    {NoFault} \cup
    UNION {[at : {k}, error : Failures,
            applied : IF requests[k].kind = "upsert"
                      THEN 0 .. Min(BATCH_SIZE, todo - requests[k].arg[1] + 1)
                      ELSE {0}] : k \in DOMAIN requests}

\* One add_rubrics call; `faulty` tells whether a request of it may raise.
AddRubricsRun(rubrics, skip_existing, text_field, faulty) ==
    /\ run = Idle
    /\ LET clean == add_rubricsRun(points, hashOf, rubrics, skip_existing, text_field, NoFault)
           todo == Len(SkipFilter(points, rubrics, skip_existing))
       IN \E fault \in IF faulty THEN Faults(clean.requests, todo) ELSE {NoFault} :
             LET r == add_rubricsRun(points, hashOf, rubrics, skip_existing, text_field, fault)
             IN /\ points' = r.points
                /\ run' = [pc |-> "add_rubrics", rubrics |-> rubrics,
                           skip_existing |-> skip_existing, text_field |-> text_field,
                           fault |-> fault, prior |-> points, requests |-> r.requests,
                           raised |-> r.raised, returned |-> r.returned]
    /\ UNCHANGED <<collections, hashOf, history, eval, http, pipe, cmp, app>>

SearchRun(query, top_k, faulty) ==
    /\ run = Idle
    /\ LET clean == searchRun(points, query, top_k, NoFault)
       IN \E fault \in IF faulty THEN Faults(clean.requests, 0) ELSE {NoFault} :
             LET r == searchRun(points, query, top_k, fault)
             IN /\ points' = r.points
                /\ run' = [pc |-> "search", query |-> query, top_k |-> top_k,
                           fault |-> fault, prior |-> points, requests |-> r.requests,
                           raised |-> r.raised, returned |-> r.returned]
    /\ UNCHANGED <<collections, hashOf, history, eval, http, pipe, cmp, app>>

\* The caller has the value or the exception; the embedder takes the next call.
Return ==
    /\ run # Idle
    /\ run' = Idle
    /\ UNCHANGED <<collections, points, hashOf, history, eval, http, pipe, cmp, app>>

\* Calls in which no request raises, over the store as earlier calls and
\* earlier processes left it.
NextRun ==
    \/ \E rubrics \in RubricLists, skip_existing \in BOOLEAN, text_field \in TextFields :
            AddRubricsRun(rubrics, skip_existing, text_field, FALSE)
    \/ \E query \in Queries, top_k \in 1 .. MaxTopK : SearchRun(query, top_k, FALSE)
    \/ Return
    \/ run = Idle /\ Construct

SpecRun == Init /\ [][NextRun]_vars

\* Calls in which a request may raise, with the default text_field.
NextFault ==
    \/ \E rubrics \in RunLists, skip_existing \in BOOLEAN :
            AddRubricsRun(rubrics, skip_existing, "translation", TRUE)
    \/ \E query \in Queries, top_k \in 1 .. MaxTopK : SearchRun(query, top_k, TRUE)
    \/ Return

SpecFault == Init /\ [][NextFault]_vars

\* ------------------------------------------------------ evaluation harness
\* scripts/evaluate_search.py (evaluate_search) and the same loop in
\* scripts/compare_embeddings.py (evaluate_collection, without Hit@3): every
\* non-blank test cell of every rubric row is searched with top_k = 10 and
\* the rank of the row's own rubric id in the results is scored.
EVAL_TOP_K == 10
\* Most test cells one evaluation visits.
MaxCells == 3
\* 1 / rank is kept in units of 1/2520, the least common multiple of 1..10.
RankUnit == 2520
Harnesses == {"evaluate_search", "evaluate_collection"}

NaN == "NaN"
TestCells == {NaN, "   ", " afraid at night "}
strip(cell) ==
    CASE cell = "   " -> ""
      [] cell = " afraid at night " -> "afraid at night"
      [] OTHER -> cell
\* Mutant of IsBlank: only a missing cell is skipped.
IsBlankMissingOnly(cell) == cell = NaN

\* pd.isna(test_sentence) or not str(test_sentence).strip()
IsBlank(cell) == cell = NaN \/ strip(cell) = ""

\* What a search with top_k = 10 can return for a test sentence, as far as
\* the harness looks at it: n results, the one at position pos (if any)
\* carrying the rubric id of the row, the scores falling with the position
\* (in units of 1/(EVAL_TOP_K + 1)).
ResultLengths == {0, 2, EVAL_TOP_K}
SearchResults(rubric_id) ==
    {[i \in 1 .. n |-> [rubric_id |-> IF i = pos THEN rubric_id ELSE "other",
                         score |-> EVAL_TOP_K + 1 - i]] :
        n \in ResultLengths, pos \in 0 .. EVAL_TOP_K}

\* Mutant of FindRank: the first result is not looked at.
RECURSIVE FindRankSkipsFirst(_, _, _)
FindRankSkipsFirst(search_results, rubric_id, i) ==
    IF i >= Len(search_results) THEN NoValue
    ELSE IF i > 0 /\ search_results[i + 1].rubric_id = rubric_id THEN <<i + 1>>
    ELSE FindRankSkipsFirst(search_results, rubric_id, i + 1)

\* for i, result in enumerate(search_results): the first match, 1-indexed;
\* NoValue for Python's None.
RECURSIVE FindRank(_, _, _)
FindRank(search_results, rubric_id, i) ==
    IF i >= Len(search_results) THEN NoValue
    ELSE IF search_results[i + 1].rubric_id = rubric_id THEN <<i + 1>>
    ELSE FindRank(search_results, rubric_id, i + 1)

RECURSIVE Sum(_)
Sum(s) == IF s = <<>> THEN 0 ELSE Head(s) + Sum(Tail(s))

\* A number as a fraction; the digits after formatting it with `decimals`
\* decimals (f"{x:.1f}": 33.3 is 333), rounded half to even.
Fraction(num, den) == [num |-> num, den |-> den]
Format(x, decimals) ==
    LET scaled == x.num * 10 ^ decimals
        q == scaled \div x.den
        r == scaled % x.den
    IN IF 2 * r < x.den THEN q
       ELSE IF 2 * r > x.den THEN q + 1
       ELSE IF q % 2 = 0 THEN q ELSE q + 1

\* hits / total_queries * 100 if total_queries else 0
Percent(hits, total_queries) ==
    IF total_queries # 0 THEN Fraction(hits * 100, total_queries) ELSE Fraction(0, 1)
\* sum(reciprocal_ranks) / len(reciprocal_ranks) if reciprocal_ranks else 0
MeanReciprocalRank(reciprocal_ranks) ==
    IF reciprocal_ranks # <<>>
    THEN Fraction(Sum(reciprocal_ranks), RankUnit * Len(reciprocal_ranks))
    ELSE Fraction(0, 1)

\* sum(scores_when_found) / len(scores_when_found) if scores_when_found else 0
Average(scores_when_found) ==
    IF scores_when_found # <<>>
    THEN Fraction(Sum(scores_when_found), Len(scores_when_found))
    ELSE Fraction(0, 1)

\* The embedder takes no step while a script or the API is followed.
InitScripts ==
    /\ collections = _ensure_collection([c \in {} |-> VectorParams])
    /\ points = NoPoints
    /\ hashOf = [id \in Ids |-> 0]
    /\ call = [op |-> "__init__", created |-> TRUE]
    /\ ret = None
    /\ before = 0
    /\ run = Idle
    /\ eval = Idle
    /\ http = Idle
    /\ pipe = Idle
    /\ cmp = Idle
    /\ app = Unconstructed

embedder == <<collections, points, hashOf, history, run>>

\* The counters before the first row; `ranks` keeps, for the properties, the
\* position of the row's rubric id in each result list (0: not in it), and
\* `cell` the test cell read last.  evaluate_collection keeps neither
\* hits_at_3 nor scores_when_found.
EvaluateStart(harness) ==
    /\ eval = Idle
    /\ eval' = [pc |-> "loop", harness |-> harness, cells |-> 0, total_queries |-> 0,
                hits_at_1 |-> 0, hits_at_3 |-> 0, hits_at_5 |-> 0, hits_at_10 |-> 0,
                reciprocal_ranks |-> <<>>, scores_when_found |-> <<>>,
                ranks |-> <<>>, cell |-> None]
    /\ UNCHANGED <<embedder, http, pipe, cmp, app>>

Position(search_results, rubric_id) ==
    LET at == {i \in DOMAIN search_results : search_results[i].rubric_id = rubric_id}
    IN IF at = {} THEN 0 ELSE CHOOSE i \in at : \A j \in at : i <= j

\* One test cell of one row: skipped when blank, searched and scored otherwise.
EvaluateCell(rubric_id, test_sentence, search_results) ==
    /\ eval # Idle
    /\ eval.pc = "loop"
    /\ eval.cells < MaxCells
    /\ IF IsBlank(test_sentence)
       THEN eval' = [eval EXCEPT !.cells = @ + 1, !.cell = test_sentence]
       ELSE LET rank == FindRank(search_results, rubric_id, 0)
                found == rank # NoValue
            IN eval' = [eval EXCEPT
                          !.cells = @ + 1,
                          !.cell = test_sentence,
                          !.scores_when_found =
                              IF found /\ eval.harness = "evaluate_search"
                              THEN Append(@, search_results[rank[1]].score) ELSE @,
                          !.total_queries = @ + 1,
                          !.hits_at_1 = IF found /\ rank[1] = 1 THEN @ + 1 ELSE @,
                          !.hits_at_3 = IF found /\ rank[1] <= 3
                                           /\ eval.harness = "evaluate_search"
                                        THEN @ + 1 ELSE @,
                          !.hits_at_5 = IF found /\ rank[1] <= 5 THEN @ + 1 ELSE @,
                          !.hits_at_10 = IF found /\ rank[1] <= 10 THEN @ + 1 ELSE @,
                          !.reciprocal_ranks =
                              Append(@, IF found THEN RankUnit \div rank[1] ELSE 0),
                          !.ranks = Append(@, Position(search_results, rubric_id))]
    /\ UNCHANGED <<embedder, http, pipe, cmp, app>>

\* The rows are exhausted: the metrics, and the figures as they are printed.
\* evaluate_collection neither counts nor reports Hit@3.
EvaluateReport ==
    /\ eval # Idle
    /\ eval.pc = "loop"
    /\ LET hit_at_1 == Percent(eval.hits_at_1, eval.total_queries)
           hit_at_3 == Percent(eval.hits_at_3, eval.total_queries)
           hit_at_5 == Percent(eval.hits_at_5, eval.total_queries)
           hit_at_10 == Percent(eval.hits_at_10, eval.total_queries)
           mrr == MeanReciprocalRank(eval.reciprocal_ranks)
           third == IF eval.harness = "evaluate_search" THEN {3} ELSE {}
       IN eval' = [eval EXCEPT !.pc = "done"] @@
                  [metrics |-> [K \in {1, 5, 10} \cup third |->
                                   CASE K = 1 -> hit_at_1 [] K = 3 -> hit_at_3
                                     [] K = 5 -> hit_at_5 [] K = 10 -> hit_at_10],
                   mrr |-> mrr,
                   printed |-> [K \in {1, 5, 10} \cup third |->
                                   CASE K = 1 -> Format(hit_at_1, 1)
                                     [] K = 3 -> Format(hit_at_3, 1)
                                     [] K = 5 -> Format(hit_at_5, 1)
                                     [] K = 10 -> Format(hit_at_10, 1)],
                   printed_mrr |-> Format(mrr, 3)] @@
                  (IF eval.harness = "evaluate_search"
                   THEN [avg_score |-> Average(eval.scores_when_found)]
                   ELSE <<>>)
    /\ UNCHANGED <<embedder, http, pipe, cmp, app>>

NextEval ==
    \/ \E harness \in Harnesses : EvaluateStart(harness)
    \/ \E rubric_id \in Ids, test_sentence \in TestCells :
          \E search_results \in IF IsBlank(test_sentence) THEN {<<>>}
                                ELSE SearchResults(rubric_id) :
              EvaluateCell(rubric_id, test_sentence, search_results)
    \/ EvaluateReport

SpecEval == InitScripts /\ [][NextEval]_vars

\* ------------------------------------------------- search API and frontend
\* src/api.py: GET /search and POST /search both run _perform_search over the
\* process's embedder; frontend/app.py runs its page script over its own.
\* The collection is filled and cleared by the ingestion script between
\* requests.
HTTP_OK == 200
HTTP_NOT_READY == 503
\* FastAPI's answers to a request that fails validation, and to a handler
\* that raises anything but an HTTPException.
HTTP_UNPROCESSABLE == 422
HTTP_SERVER_ERROR == 500
FRONTEND_TOP_K == 10
TOP_K_MAX == 100
\* Constructions of RubricEmbedder that raise in one API process.
MaxFailures == 2
Methods == {"GET", "POST"}
\* The text box of the page: empty, or a query.
PageInputs == Queries \cup {""}
\* top_k as a request carries it: left out, something that is no integer, or
\* an integer, among them the ones around both ends of the accepted range.
RawTopK ==
    {[given |-> FALSE, integer |-> FALSE, value |-> 0],
     [given |-> TRUE, integer |-> FALSE, value |-> 0]} \cup
    {[given |-> TRUE, integer |-> TRUE, value |-> k] :
        k \in (-1 .. MaxTopK) \cup (TOP_K_MAX - 1 .. TOP_K_MAX + 1)}

\* Mutant of search_get_top_k: no upper bound.
search_get_top_kUnbounded(raw) ==
    IF ~raw.given THEN [valid |-> TRUE, top_k |-> 10]
    ELSE [valid |-> raw.integer /\ raw.value >= 1, top_k |-> raw.value]

\* search_get: top_k: int = Query(default=10, ge=1, le=100).
search_get_top_k(raw) ==
    IF ~raw.given THEN [valid |-> TRUE, top_k |-> 10]
    ELSE [valid |-> raw.integer /\ raw.value >= 1 /\ raw.value <= 100, top_k |-> raw.value]

\* SearchQuery: top_k: int = Field(default=10, ge=1, le=100).
SearchQuery_top_k(raw) ==
    IF ~raw.given THEN [valid |-> TRUE, top_k |-> 10]
    ELSE [valid |-> raw.integer /\ raw.value >= 1 /\ raw.value <= 100, top_k |-> raw.value]

\* Mutant of get_embedder: a new RubricEmbedder for every call.
get_embedderUncached(a, ok) ==
    IF ok
    THEN [app |-> [a EXCEPT !.constructed = @ + 1],
          instance |-> <<a.constructed + 1>>, raised |-> None, constructed |-> TRUE]
    ELSE [app |-> [a EXCEPT !.failed = @ + 1],
          instance |-> NoInstance, raised |-> "Exception", constructed |-> FALSE]

\* get_embedder in the process state a; ok: RubricEmbedder(), if it is
\* called, returns (it raises otherwise, before _embedder is assigned).
\* Instances are numbered in the order of their construction.
get_embedder(a, ok) ==
    IF a._embedder # NoInstance
    THEN [app |-> a, instance |-> a._embedder, raised |-> None, constructed |-> FALSE]
    ELSE IF ok
         THEN [app |-> [a EXCEPT !._embedder = <<a.constructed + 1>>,
                                 !.constructed = @ + 1],
               instance |-> <<a.constructed + 1>>, raised |-> None, constructed |-> TRUE]
         ELSE [app |-> [a EXCEPT !.failed = @ + 1],
               instance |-> NoInstance, raised |-> "Exception", constructed |-> FALSE]

\* RubricResult(**r): the fields the response model declares; a key of r that
\* the model does not declare is dropped.
RubricResult(r) ==
    [rubric_id |-> r.rubric_id, path |-> r.path, translation |-> r.translation,
     chapter |-> r.chapter, score |-> r.score]

\* Mutant of _perform_search: no check of count() before the search.
_perform_searchUnguarded(pts, query, top_k) ==
    LET results == search(pts, query, top_k)
    IN [status_code |-> HTTP_OK, counted |-> TRUE, searched |-> TRUE,
        body |-> [query |-> query,
                  results |-> [i \in DOMAIN results |-> RubricResult(results[i])],
                  total_in_collection |-> count(pts)]]

\* _perform_search once get_embedder has returned the embedder.
_perform_search(pts, query, top_k) ==
    IF count(pts) = 0
    THEN [status_code |-> HTTP_NOT_READY, counted |-> TRUE, searched |-> FALSE,
          body |-> [detail |-> "No rubrics in collection. Run embed_rubrics.py first."]]
    ELSE LET results == search(pts, query, top_k)
         IN [status_code |-> HTTP_OK, counted |-> TRUE, searched |-> TRUE,
             body |-> [query |-> query,
                       results |-> [i \in DOMAIN results |-> RubricResult(results[i])],
                       total_in_collection |-> count(pts)]]

\* The answer to a request that never reached count() or search().
Refused(status_code, detail) ==
    [status_code |-> status_code, counted |-> FALSE, searched |-> FALSE,
     body |-> [detail |-> detail]]

\* The store after a get_embedder call: a construction runs
\* _ensure_collection.
StoreAfter(g) ==
    IF g.constructed THEN EnsureStore(collections, points)
    ELSE [collections |-> collections, points |-> points, created |-> FALSE]

\* lifespan: get_embedder() before the first request of a process.  When the
\* construction raises, startup fails and the process ends; the next process
\* imports the module anew.
Startup(ok) ==
    /\ http = Idle
    /\ app = Unconstructed
    /\ LET g == get_embedder(app, ok)
       IN /\ app' = IF g.raised = None THEN g.app ELSE Unconstructed
          /\ collections' = StoreAfter(g).collections
          /\ points' = StoreAfter(g).points
          /\ http' = [pc |-> "served", client |-> "api", endpoint |-> "startup",
                      instance |-> g.instance, raised |-> g.raised,
                      constructed |-> g.constructed, cached |-> app._embedder]
    /\ UNCHANGED <<hashOf, history, run, eval, pipe, cmp>>

\* health_check.
HealthCheck(ok) ==
    /\ http = Idle
    /\ LET g == get_embedder(app, ok)
       IN /\ g.raised # None => app.failed < MaxFailures
          /\ app' = g.app
          /\ collections' = StoreAfter(g).collections
          /\ points' = StoreAfter(g).points
          /\ http' = [pc |-> "served", client |-> "api", endpoint |-> "health",
                      instance |-> g.instance, raised |-> g.raised,
                      constructed |-> g.constructed, cached |-> app._embedder,
                      response |->
                          IF g.raised # None
                          THEN Refused(HTTP_SERVER_ERROR, "Internal Server Error")
                          ELSE [status_code |-> HTTP_OK, counted |-> TRUE,
                                searched |-> FALSE,
                                body |-> [status |-> "ok",
                                          collection_size |-> count(StoreAfter(g).points)]]]
    /\ UNCHANGED <<hashOf, history, run, eval, pipe, cmp>>

\* search_get / search_post: the declared validation of top_k, then
\* _perform_search with the validated value.
SearchEndpoint(method, query, raw, ok) ==
    /\ http = Idle
    /\ LET v == IF method = "GET" THEN search_get_top_k(raw) ELSE SearchQuery_top_k(raw)
           g == get_embedder(app, ok)
       IN IF ~v.valid
          THEN /\ http' = [pc |-> "served", client |-> "api", endpoint |-> "search",
                           method |-> method, query |-> query, raw |-> raw,
                           valid |-> FALSE, top_k |-> v.top_k,
                           instance |-> NoInstance, raised |-> None,
                           constructed |-> FALSE, cached |-> app._embedder,
                           response |-> Refused(HTTP_UNPROCESSABLE, "validation error")]
               /\ UNCHANGED <<collections, points, app>>
          ELSE /\ g.raised # None => app.failed < MaxFailures
               /\ app' = g.app
               /\ collections' = StoreAfter(g).collections
               /\ points' = StoreAfter(g).points
               /\ http' = [pc |-> "served", client |-> "api", endpoint |-> "search",
                           method |-> method, query |-> query, raw |-> raw,
                           valid |-> TRUE, top_k |-> v.top_k,
                           instance |-> g.instance, raised |-> g.raised,
                           constructed |-> g.constructed, cached |-> app._embedder,
                           response |->
                               IF g.raised # None
                               THEN Refused(HTTP_SERVER_ERROR, "Internal Server Error")
                               ELSE _perform_search(StoreAfter(g).points, query, v.top_k)]
    /\ UNCHANGED <<hashOf, history, run, eval, pipe, cmp>>

\* One run of the page script with `query` in the text box.
FrontendPage(query) ==
    /\ http = Idle
    /\ http' = [pc |-> "served", client |-> "frontend", query |-> query,
                page |-> IF count(points) = 0
                         THEN [warning |-> TRUE, stopped |-> TRUE,
                               searched |-> FALSE, results |-> <<>>]
                         ELSE IF query # ""
                              THEN [warning |-> FALSE, stopped |-> FALSE, searched |-> TRUE,
                                    results |-> search(points, query, FRONTEND_TOP_K)]
                              ELSE [warning |-> FALSE, stopped |-> FALSE,
                                    searched |-> FALSE, results |-> <<>>]]
    /\ UNCHANGED <<embedder, eval, pipe, cmp, app>>

\* The response is sent; the next request can come.
Served ==
    /\ http # Idle
    /\ http' = Idle
    /\ UNCHANGED <<embedder, eval, pipe, cmp, app>>

NextApi ==
    \/ \E ok \in BOOLEAN : Startup(ok)
    \/ \E ok \in BOOLEAN : HealthCheck(ok)
    \/ \E method \in Methods, query \in Queries, raw \in RawTopK, ok \in BOOLEAN :
            SearchEndpoint(method, query, raw, ok)
    \/ \E query \in PageInputs : FrontendPage(query)
    \/ Served
    \/ \E rubrics \in RubricLists, text_field \in TextFields :
            http = Idle /\ AddRubrics(rubrics, TRUE, text_field)
    \/ http = Idle /\ Clear

SpecApi == Init /\ [][NextApi]_vars

\* ----------------------------------------------------------- LLM pipelines
\* scripts/translate_rubrics.py (main_async, and main for --sync) and
\* scripts/generate_test_sentences.py (main): the rows of a spreadsheet are
\* sent to an LLM, in the async programs as tasks of one event loop behind a
\* semaphore, and the parsed answers are written back to the rows.
\* Rows of the spreadsheet.
MaxRows == 3
\* BATCH_SIZE of translate_rubrics.py is 20; scaled so that MaxRows rows take
\* more than one batch.
TRANSLATE_BATCH_SIZE == 2
\* CONCURRENT_REQUESTS is 10 in both scripts; scaled so that a batch, or the
\* rows of the generator, can outnumber the slots.
CONCURRENT_REQUESTS == 2

Rows == 1 .. MaxRows
\* The translation cell of a row as the spreadsheet is loaded.
Cells == {NaN, "", "kept"}
Sheets == [Rows -> [translation : Cells, test_1 : {NaN}]]
PathOf(idx) == <<"Mind", idx>>
\* --concurrency: the default, or a number given on the command line;
\* asyncio.Semaphore takes any value from 0 on.
Concurrencies == 0 .. CONCURRENT_REQUESTS
\* limit: left out (None), or the number given on the command line.
Limits == {NoValue} \cup {<<n>> : n \in 0 .. MaxRows}

\* The answer of the LLM for a rubric path, line by line.
Completion(path) ==
    <<[prefix |-> "TRANSLATION:", text |-> <<"modern", path>>],
      [prefix |-> "TEST_1:", text |-> <<"patient", path>>]>>
\* parse_response of translate_rubrics.py: "" where the answer has no line
\* of that prefix, the text of the last such line otherwise.
RECURSIVE parse_response(_, _)
parse_response(response_text, result) ==
    IF response_text = <<>> THEN result
    ELSE LET line == Head(response_text)
         IN parse_response(
                Tail(response_text),
                IF line.prefix = "TRANSLATION:" THEN [result EXCEPT !.translation = line.text]
                ELSE IF line.prefix = "TEST_1:" THEN [result EXCEPT !.test_1 = line.text]
                ELSE result)
Parsed(path) == parse_response(Completion(path), [translation |-> "", test_1 |-> ""])
APIError == [exception |-> "APIError"]
IsException(result) == "exception" \in DOMAIN result

\* df[df["translation"].isna() | (df["translation"] == "")], then head(limit)
\* under `if limit:`, which None and 0 both fail: the row indexes in row
\* order.
RECURSIVE NeedsTranslation(_, _)
NeedsTranslation(df, idx) ==
    IF idx > MaxRows THEN <<>>
    ELSE (IF df[idx].translation = NaN \/ df[idx].translation = "" THEN <<idx>> ELSE <<>>)
         \o NeedsTranslation(df, idx + 1)
Selected(df, limit) ==
    LET needs_translation == NeedsTranslation(df, 1)
    IN IF limit # NoValue /\ limit[1] # 0
       THEN SubSeq(needs_translation, 1, Min(limit[1], Len(needs_translation)))
       ELSE needs_translation

\* Mutant of ApplyResults: the k-th result goes to the k-th row.
RECURSIVE ApplyResultsByPosition(_, _, _, _)
ApplyResultsByPosition(df, results, translated, errors) ==
    IF results = <<>> THEN [df |-> df, translated |-> translated, errors |-> errors]
    ELSE LET idx == translated + errors + 1
             result == Head(results)[2]
         IN IF IsException(result)
            THEN ApplyResultsByPosition(df, Tail(results), translated, errors + 1)
            ELSE ApplyResultsByPosition([df EXCEPT ![idx] = result @@ @],
                                        Tail(results), translated + 1, errors)

\* for idx, result in results: an exception is counted, an answer is written
\* to row idx.
RECURSIVE ApplyResults(_, _, _, _)
ApplyResults(df, results, translated, errors) ==
    IF results = <<>> THEN [df |-> df, translated |-> translated, errors |-> errors]
    ELSE LET idx == Head(results)[1]
             result == Head(results)[2]
         IN IF IsException(result)
            THEN ApplyResults(df, Tail(results), translated, errors + 1)
            ELSE ApplyResults([df EXCEPT ![idx] = result @@ @],
                              Tail(results), translated + 1, errors)

\* translate_rubrics.py up to the first batch (async) or the first row (sync).
TranslateStart(mode, df, limit, concurrency) ==
    /\ pipe = Idle
    /\ LET work_items == Selected(df, limit)
       IN pipe' = [pc |-> IF work_items = <<>> THEN "done"
                          ELSE IF mode = "async" THEN "loop" ELSE "sync_loop",
                   mode |-> mode, limit |-> limit, df |-> df, loaded |-> df, saved |-> df,
                   work_items |-> work_items, batch_start |-> 0,
                   tasks |-> [idx \in {} |-> Idle], results |-> <<>>,
                   semaphore |-> concurrency, concurrency |-> concurrency,
                   translated |-> 0, errors |-> 0, issued |-> <<>>]
    /\ UNCHANGED <<embedder, eval, http, cmp, app>>

\* tests/test_sentences.xlsx as the generator loads it: every row has test
\* sentences of an earlier run.
TestSheet == [idx \in Rows |-> [translation |-> "kept", test_1 |-> "old"]]

\* generate_test_sentences.py up to the creation of one task per row.
GenerateStart ==
    /\ pipe = Idle
    /\ pipe' = [pc |-> "gather", mode |-> "generate", limit |-> NoValue, df |-> TestSheet,
                loaded |-> TestSheet, saved |-> TestSheet,
                work_items |-> [i \in Rows |-> i], batch_start |-> 0,
                tasks |-> [idx \in Rows |-> [pc |-> "waiting"]], results |-> <<>>,
                semaphore |-> CONCURRENT_REQUESTS, concurrency |-> CONCURRENT_REQUESTS,
                translated |-> 0, errors |-> 0, issued |-> <<>>]
    /\ UNCHANGED <<embedder, eval, http, cmp, app>>

\* main_async: the next batch of work items becomes one task each, or the
\* run ends when none is left.
BatchStart ==
    /\ pipe # Idle
    /\ pipe.pc = "loop"
    /\ IF pipe.batch_start < Len(pipe.work_items)
       THEN LET batch == SubSeq(pipe.work_items, pipe.batch_start + 1,
                                Min(pipe.batch_start + TRANSLATE_BATCH_SIZE,
                                    Len(pipe.work_items)))
            IN pipe' = [pipe EXCEPT !.pc = "gather",
                                    !.tasks = [idx \in Range(batch) |-> [pc |-> "waiting"]]]
       ELSE pipe' = [pipe EXCEPT !.pc = "done"]
    /\ UNCHANGED <<embedder, eval, http, cmp, app>>

\* Mutant of TaskAcquire: the task does not wait for a free slot.
TaskAcquireUngated(idx) ==
    /\ pipe # Idle
    /\ pipe.pc = "gather"
    /\ idx \in DOMAIN pipe.tasks
    /\ pipe.tasks[idx].pc = "waiting"
    /\ pipe' = [pipe EXCEPT !.semaphore = @ - 1,
                            !.tasks[idx] = [pc |-> "calling"],
                            !.issued = Append(@, idx)]
    /\ UNCHANGED <<embedder, eval, http, cmp, app>>

\* async with semaphore: the task takes a slot and issues its LLM call.
TaskAcquire(idx) ==
    /\ pipe # Idle
    /\ pipe.pc = "gather"
    /\ idx \in DOMAIN pipe.tasks
    /\ pipe.tasks[idx].pc = "waiting"
    /\ pipe.semaphore > 0
    /\ pipe' = [pipe EXCEPT !.semaphore = @ - 1,
                            !.tasks[idx] = [pc |-> "calling"],
                            !.issued = Append(@, idx)]
    /\ UNCHANGED <<embedder, eval, http, cmp, app>>

\* The LLM call of the task returns (ok) or raises: the task ends with the
\* parsed answer or the exception and gives its slot back.
TaskComplete(idx, ok) ==
    /\ pipe # Idle
    /\ pipe.pc = "gather"
    /\ idx \in DOMAIN pipe.tasks
    /\ pipe.tasks[idx].pc = "calling"
    /\ LET result == IF ok THEN Parsed(PathOf(idx)) ELSE APIError
       IN pipe' = [pipe EXCEPT !.semaphore = @ + 1,
                               !.tasks[idx] = [pc |-> "done", result |-> result],
                               !.results = IF pipe.mode = "generate"
                                           THEN Append(@, <<idx, result>>) ELSE @]
    /\ UNCHANGED <<embedder, eval, http, cmp, app>>

AllDone(tasks) == \A idx \in DOMAIN tasks : tasks[idx].pc = "done"

\* main_async: gather has the results of the batch in task order; they are
\* applied and the spreadsheet is saved.
BatchApply ==
    /\ pipe # Idle
    /\ pipe.pc = "gather"
    /\ pipe.mode = "async"
    /\ AllDone(pipe.tasks)
    /\ LET batch == SubSeq(pipe.work_items, pipe.batch_start + 1,
                           Min(pipe.batch_start + TRANSLATE_BATCH_SIZE, Len(pipe.work_items)))
           results == [i \in DOMAIN batch |-> <<batch[i], pipe.tasks[batch[i]].result>>]
           applied == ApplyResults(pipe.df, results, pipe.translated, pipe.errors)
       IN pipe' = [pipe EXCEPT !.pc = "loop",
                               !.df = applied.df,
                               !.saved = applied.df,
                               !.translated = applied.translated,
                               !.errors = applied.errors,
                               !.batch_start = @ + TRANSLATE_BATCH_SIZE,
                               !.tasks = [idx \in {} |-> Idle]]
    /\ UNCHANGED <<embedder, eval, http, cmp, app>>

\* generate_test_sentences.py: the results, in the order the tasks completed,
\* are applied and the spreadsheet is saved.
GenerateApply ==
    /\ pipe # Idle
    /\ pipe.pc = "gather"
    /\ pipe.mode = "generate"
    /\ AllDone(pipe.tasks)
    /\ LET tests == [i \in DOMAIN pipe.results |->
                        <<pipe.results[i][1],
                          IF IsException(pipe.results[i][2]) THEN pipe.results[i][2]
                          ELSE [test_1 |-> pipe.results[i][2].test_1]>>]
           applied == ApplyResults(pipe.df, tests, pipe.translated, pipe.errors)
       IN pipe' = [pipe EXCEPT !.pc = "done",
                               !.df = applied.df,
                               !.saved = applied.df,
                               !.translated = applied.translated,
                               !.errors = applied.errors]
    /\ UNCHANGED <<embedder, eval, http, cmp, app>>

\* main (--sync): the next selected row is translated and written, the
\* spreadsheet saved every TRANSLATE_BATCH_SIZE translations; an exception is
\* reported (counted here in `errors`) and breaks the loop.
SyncRow(ok) ==
    /\ pipe # Idle
    /\ pipe.pc = "sync_loop"
    /\ LET idx == pipe.work_items[pipe.batch_start + 1]
           last == pipe.batch_start + 1 = Len(pipe.work_items)
       IN IF ok
          THEN LET translated == pipe.translated + 1
                   df == [pipe.df EXCEPT ![idx] = Parsed(PathOf(idx)) @@ @]
               IN pipe' = [pipe EXCEPT
                             !.df = df,
                             !.translated = translated,
                             !.saved = IF translated % TRANSLATE_BATCH_SIZE = 0 THEN df ELSE @,
                             !.issued = Append(@, idx),
                             !.batch_start = @ + 1,
                             !.pc = IF last THEN "final" ELSE "sync_loop"]
          ELSE pipe' = [pipe EXCEPT !.issued = Append(@, idx),
                                    !.errors = @ + 1,
                                    !.pc = "final"]
    /\ UNCHANGED <<embedder, eval, http, cmp, app>>

\* main (--sync): the final save.
SyncFinalSave ==
    /\ pipe # Idle
    /\ pipe.pc = "final"
    /\ pipe' = [pipe EXCEPT !.pc = "done", !.saved = pipe.df]
    /\ UNCHANGED <<embedder, eval, http, cmp, app>>

NextPipe ==
    \/ \E mode \in {"async", "sync"}, df \in Sheets, limit \in Limits,
          concurrency \in Concurrencies :
            TranslateStart(mode, df, limit, concurrency)
    \/ GenerateStart
    \/ BatchStart
    \/ \E idx \in Rows : TaskAcquire(idx)
    \/ \E idx \in Rows, ok \in BOOLEAN : TaskComplete(idx, ok)
    \/ BatchApply
    \/ GenerateApply
    \/ \E ok \in BOOLEAN : SyncRow(ok)
    \/ SyncFinalSave

SpecPipe == InitScripts /\ [][NextPipe]_vars

\* The event loop runs every task that can run, and every LLM call that was
\* issued returns or raises in the end.
PipeFairness ==
    /\ WF_vars(BatchStart)
    /\ WF_vars(BatchApply)
    /\ \A idx \in Rows :
          /\ WF_vars(TaskAcquire(idx))
          /\ WF_vars(\E ok \in BOOLEAN : TaskComplete(idx, ok))

SpecPipeFair == SpecPipe /\ PipeFairness

\* ----------------------------------------------------------- A/B comparison
\* scripts/compare_embeddings.py, main: the MRR of the translation embeddings
\* against the MRR of the original path embeddings, with a margin of 5%.
\* An MRR is a multiple of 1/MrrSteps between 0 and 1.
MrrSteps == 40
MrrValues == {Fraction(k, MrrSteps) : k \in 0 .. MrrSteps}
MARGIN == Fraction(105, 100)
\* x > y * margin
Exceeds(x, y, margin) == x.num * y.den * margin.den > y.num * margin.num * x.den

\* Mutant of Verdict: the margin is left out.
VerdictNoMargin(translation_mrr, original_mrr) ==
    IF Exceeds(translation_mrr, original_mrr, Fraction(1, 1))
    THEN "Winner: Translation embeddings perform better"
    ELSE IF Exceeds(original_mrr, translation_mrr, Fraction(1, 1))
         THEN "Winner: Original path embeddings perform better"
         ELSE "Result: Performance is similar (within 5%)"

Verdict(translation_mrr, original_mrr) ==
    IF Exceeds(translation_mrr, original_mrr, MARGIN)
    THEN "Winner: Translation embeddings perform better"
    ELSE IF Exceeds(original_mrr, translation_mrr, MARGIN)
         THEN "Winner: Original path embeddings perform better"
         ELSE "Result: Performance is similar (within 5%)"

Compare(translation_mrr, original_mrr) ==
    /\ cmp = Idle
    /\ cmp' = [pc |-> "done", translation_mrr |-> translation_mrr,
               original_mrr |-> original_mrr,
               printed |-> <<Verdict(translation_mrr, original_mrr)>>]
    /\ UNCHANGED <<embedder, eval, http, pipe, app>>

\* The script ends; it can be run again.
CompareExit ==
    /\ cmp # Idle
    /\ cmp' = Idle
    /\ UNCHANGED <<embedder, eval, http, pipe, app>>

NextCompare ==
    \/ \E translation_mrr \in MrrValues, original_mrr \in MrrValues :
            Compare(translation_mrr, original_mrr)
    \/ CompareExit

SpecCompare == InitScripts /\ [][NextCompare]_vars

\* ------------------------------------------------------ scans of the store
\* A collection as any number of ingestion runs of any number of processes
\* can have left it: point ids are hashes, so any set of point ids can be
\* taken, each by a point built from a catalog record.
MaxPoints == 3
StoredPoint(p, r) ==
    [id |-> p, vector |-> encode(r.translation),
     payload |-> [rubric_id |-> r.id, path |-> r.path, translation |-> r.translation,
                  chapter |-> r.chapter,
                  remedy_count |-> IF "remedy_count" \in DOMAIN r THEN r.remedy_count ELSE 0]]
Stores ==
    UNION {{[p \in S |-> StoredPoint(p, f[p])] : f \in [S -> Catalog]} :
              S \in SUBSET (0 .. MaxPoints - 1)}

InitScan ==
    /\ collections = _ensure_collection([c \in {} |-> VectorParams])
    /\ points \in Stores
    /\ hashOf = [id \in Ids |-> 0]
    /\ call = [op |-> "__init__", created |-> FALSE]
    /\ ret = None
    /\ before = count(points)
    /\ run = Idle
    /\ eval = Idle
    /\ http = Idle
    /\ pipe = Idle
    /\ cmp = Idle
    /\ app = Unconstructed

NextScan ==
    \/ GetExistingIds
    \/ Count

SpecScan == InitScan /\ [][NextScan]_vars

\* ------------------------------------------------------------------ claims
\* The rubric ids a scan of the collection reports.
ExistingIds(pts) == Range(get_existing_ids(pts))
\* The stored points that carry rubric id `id`.
PointsOf(pts, id) == {pts[p] : p \in {q \in DOMAIN pts : pts[q].payload.rubric_id = id}}
\* The last record of `rubrics` with id `id`.
LastWithId(rubrics, id) ==
    LET at == {i \in DOMAIN rubrics : rubrics[i].id = id}
    IN rubrics[CHOOSE i \in at : \A j \in at : j <= i]

\* C1: add_rubrics(R, skip_existing=True) called again with the same R, right
\* after a call add_rubrics(R, skip_existing=True), returns 0 and leaves
\* count() where the first call left it.
C1_SecondAddReturnsZero ==
    [][\A R \in RubricLists, tf \in TextFields :
          call'.op = "add_rubrics" /\ AddRubrics(R, TRUE, tf) =>
              LET second == add_rubrics(points', hashOf', R, TRUE, tf)
              IN second.ret = 0 /\ count(second.points) = count(points')]_vars

\* C2: no two stored points carry the same rubric_id, so get_existing_ids
\* never reports an id twice.
C2_RubricIdUnique ==
    /\ \A p, q \in DOMAIN points :
          points[p].payload.rubric_id = points[q].payload.rubric_id => p = q
    /\ LET ids == get_existing_ids(points)
       IN \A i, j \in DOMAIN ids : ids[i] = ids[j] => i = j

\* C3: add_rubrics on a list holding an id that is already stored leaves the
\* points of that id as they are when skip_existing is True; when it is False
\* the one point of that id afterwards is the point built from the new record,
\* and count() grows by no more than the number of ids that were not stored.
C3_ReaddSkipsOrOverwrites ==
    [][\A R \in RubricLists, skip_existing \in BOOLEAN, tf \in TextFields :
          call'.op = "add_rubrics" /\ AddRubrics(R, skip_existing, tf) =>
              /\ \A i \in DOMAIN R :
                    R[i].id \in ExistingIds(points) =>
                        IF skip_existing
                        THEN PointsOf(points', R[i].id) = PointsOf(points, R[i].id)
                        ELSE PointsOf(points', R[i].id)
                                = {PointStruct(hashOf, LastWithId(R, R[i].id), tf)}
              /\ count(points') - count(points)
                    <= Cardinality({R[i].id : i \in DOMAIN R} \ ExistingIds(points))]_vars

\* C4: search(query, k) with k >= 1 returns at most min(k, count()) results;
\* on an empty collection it returns the empty list, the limit passed to the
\* store being 1.
C4_SearchBounds ==
    call.op = "search" =>
        /\ Len(ret) <= Min(call.top_k, count(points))
        /\ count(points) = 0 => ret = <<>> /\ SearchLimit(points, call.top_k) = 1

C4_Witness ==
    /\ call.op = "search"
    /\ call.top_k = 1
    /\ count(points) = 2
    /\ Len(ret) = 1

\* C5: the rounded scores of a search result are non-increasing from first to
\* last and lie in [-1, 1] (in units of 10^-4).
C5_RankingOrder ==
    call.op = "search" =>
        /\ \A i, j \in DOMAIN ret : i < j => ret[i].score >= ret[j].score
        /\ \A i \in DOMAIN ret : ret[i].score >= 0 - 10000 /\ ret[i].score <= 10000

C5_Witness ==
    /\ call.op = "search"
    /\ Len(ret) = 2
    /\ ret[1].score > ret[2].score
    /\ ret[2].score < 0

\* C6: after clear() count() is 0, get_existing_ids() is empty, every search
\* returns the empty list, the collection exists with the same vector size and
\* cosine metric, and an add_rubrics that follows stores its records.
C6_ClearSemantics ==
    call.op = "clear" =>
        /\ count(points) = 0
        /\ get_existing_ids(points) = <<>>
        /\ \A q \in Queries, k \in 1 .. MaxTopK : search(points, q, k) = <<>>
        /\ DEFAULT_COLLECTION \in DOMAIN collections
        /\ collections[DEFAULT_COLLECTION] = [size |-> VECTOR_SIZE, distance |-> "Cosine"]
        /\ \A R \in RubricLists, skip_existing \in BOOLEAN, tf \in TextFields :
              LET r == add_rubrics(points, hashOf, R, skip_existing, tf)
              IN r.ret = Len(R) /\ (R # <<>> => count(r.points) >= 1)

C6_Witness ==
    /\ call.op = "clear"
    /\ before = 2
    /\ count(points) = 0

\* C8: search, count and get_existing_ids leave the stored points and the
\* set of collections as they were.
C8_ReadsArePure ==
    [][call'.op \in {"search", "count", "get_existing_ids"} =>
          points' = points /\ collections' = collections]_vars

C8_Witness ==
    /\ call.op = "search"
    /\ count(points) = 2
    /\ Len(ret) = 2

\* C7: a step that is not clear() loses no rubric id that get_existing_ids
\* reported before it, and does not lower count().
C7_OnlyClearRemoves ==
    [][call'.op # "clear" =>
          /\ ExistingIds(points) \subseteq ExistingIds(points')
          /\ count(points') >= count(points)]_vars

IsFirst(res, payload) ==
    /\ Len(res) >= 1
    /\ res[1].rubric_id = payload.rubric_id
    /\ res[1].path = payload.path
    /\ res[1].translation = payload.translation

\* C9 as claimed: every stored point, whichever field its vector was embedded
\* from, is the first result of a search for its own translation.
C9_SelfRetrievalAnyField ==
    \A p \in DOMAIN points, k \in 1 .. MaxTopK :
        IsFirst(search(points, points[p].payload.translation, k), points[p].payload)

\* C9, amended: for every stored point whose vector is the embedding of its
\* translation (text_field = "translation"), a search for that translation
\* returns a first result of score 1.0, and that result is the point's rubric
\* when no other stored point has the same vector.
C9_SelfRetrieval ==
    \A p \in DOMAIN points, k \in 1 .. MaxTopK :
        points[p].vector = encode(points[p].payload.translation) =>
            LET res == search(points, points[p].payload.translation, k)
            IN /\ Len(res) >= 1
               /\ res[1].score = 10000
               /\ (\A q \in DOMAIN points \ {p} : points[q].vector # points[p].vector)
                     => IsFirst(res, points[p].payload)

C9_Witness ==
    /\ call.op = "search"
    /\ call.query = "scared in darkness"
    /\ count(points) = 2
    /\ \E p \in DOMAIN points :
          /\ points[p] = PointStruct(hashOf, Rubric1b, "translation")
          /\ IsFirst(ret, points[p].payload)
          /\ \E q \in DOMAIN points : points[q].payload.rubric_id = "2"

\* The records of an add_rubrics call that pass its skip_existing filter.
Todo(r) == SkipFilter(r.prior, r.rubrics, r.skip_existing)
\* The point ids this process gives to the records of a list.
PointIdsOf(h, rubrics) == {PointId(h, rubrics[i].id) : i \in DOMAIN rubrics}

\* C11 as claimed: the integer add_rubrics returns is count() after the call
\* minus count() before it.
C11_ReturnsCountGrowth ==
    run.pc = "add_rubrics" /\ run.raised = None =>
        run.returned = <<count(points) - count(run.prior)>>

\* C11, amended: add_rubrics returns the number of records it embedded and
\* upserted, that is all records of the list or, with skip_existing, those
\* whose id was not stored when the call began; count() grows by the number
\* of point ids of these records that were not stored, which is never more
\* than the integer returned.
C11_ReturnsUpserted ==
    run.pc = "add_rubrics" /\ run.raised = None =>
        /\ run.returned = <<Len(Todo(run))>>
        /\ count(points) - count(run.prior)
              = Cardinality(PointIdsOf(hashOf, Todo(run)) \ DOMAIN run.prior)
        /\ count(points) - count(run.prior) <= run.returned[1]

C11_Witness ==
    /\ run.pc = "add_rubrics"
    /\ run.rubrics = <<Rubric1b>>
    /\ run.skip_existing = FALSE
    /\ \E p \in DOMAIN run.prior : run.prior[p].payload.rubric_id = "1"
    /\ run.returned = <<1>>
    /\ count(points) = count(run.prior)

\* The last record of `rubrics` that this process stores under point id p.
LastAt(h, rubrics, p) ==
    LET at == {i \in DOMAIN rubrics : PointId(h, rubrics[i].id) = p}
    IN rubrics[CHOOSE i \in at : \A j \in at : j <= i]
\* A search result carries the fields of record r.
CarriesRecord(res, r) ==
    /\ res.rubric_id = r.id
    /\ res.path = r.path
    /\ res.translation = r.translation
    /\ res.chapter = r.chapter
    /\ res.remedy_count = IF "remedy_count" \in DOMAIN r THEN r.remedy_count ELSE 0
\* A search result carries the payload of a stored point.
CarriesPayload(res, payload) ==
    /\ res.rubric_id = payload.rubric_id
    /\ res.path = payload.path
    /\ res.translation = payload.translation
    /\ res.chapter = payload.chapter
    /\ res.remedy_count = payload.remedy_count

\* C12: after add_rubrics, with either text_field, every result of a search
\* (any query, the largest top_k) carries rubric_id, path, translation and chapter of the last record
\* the call upserted for the point of that result, and that record's
\* remedy_count or 0 when it has none; a result for a point the call did not
\* write carries the payload the point had before, and a search returns the
\* payloads as they are stored.
C12_PayloadRoundTrip ==
    /\ run.pc = "add_rubrics" /\ run.raised = None =>
          \A q \in Queries :
              LET order == Ranked(points, encode(q), DOMAIN points)
                  res == search(points, q, MaxTopK)
              IN \A i \in DOMAIN res :
                    IF order[i] \in PointIdsOf(hashOf, Todo(run))
                    THEN CarriesRecord(res[i], LastAt(hashOf, Todo(run), order[i]))
                    ELSE CarriesPayload(res[i], run.prior[order[i]].payload)
    /\ run.pc = "search" /\ run.raised = None =>
          LET order == Ranked(points, encode(run.query), DOMAIN points)
          IN \A i \in DOMAIN run.returned[1] :
                CarriesPayload(run.returned[1][i], points[order[i]].payload)

C12_Witness ==
    /\ run.pc = "add_rubrics"
    /\ run.rubrics = <<Rubric1b>>
    /\ run.text_field = "path"
    /\ run.skip_existing = FALSE
    /\ \E p \in DOMAIN run.prior : run.prior[p] = PointStruct(hashOf, Rubric1, "translation")
    /\ count(points) = 2
    /\ \E i \in 1 .. 2 :
          LET res == search(points, "scared in darkness", 2)[i]
          IN /\ res.rubric_id = "1"
             /\ res.translation = "scared in darkness"
             /\ res.remedy_count = 0

\* The number of queries whose rubric was found at a position from 1 to K.
HitsWithin(ranks, K) == Cardinality({i \in DOMAIN ranks : ranks[i] >= 1 /\ ranks[i] <= K})
\* A fraction equals num / den.
IsRatio(x, num, den) == x.num * den = num * x.den

\* C13: once the harness has gone through N >= 1 non-blank test queries, each
\* Hit@K it reports is 100 * (queries whose rubric id is at a position <= K of
\* the top-10 results) / N and its MRR is the sum of 1/rank over the queries
\* that found their rubric, divided by N; for the ranks (1, 3, not found) it
\* prints Hit@1 33.3, Hit@5 66.7 and MRR 0.444.
C13_EvaluationArithmetic ==
    (eval # Idle /\ eval.pc = "done" /\ eval.total_queries >= 1) =>
        LET N == eval.total_queries
        IN /\ N = Len(eval.ranks)
           /\ \A K \in DOMAIN eval.metrics :
                 IsRatio(eval.metrics[K], 100 * HitsWithin(eval.ranks, K), N)
           /\ eval.harness = "evaluate_search" => DOMAIN eval.metrics = {1, 3, 5, 10}
           /\ IsRatio(eval.mrr,
                      Sum([i \in DOMAIN eval.ranks |->
                              IF eval.ranks[i] = 0 THEN 0 ELSE RankUnit \div eval.ranks[i]]),
                      RankUnit * N)
           /\ \A i \in DOMAIN eval.ranks :
                 eval.ranks[i] # 0 => RankUnit % eval.ranks[i] = 0
           /\ eval.ranks = <<1, 3, 0>> =>
                 /\ eval.printed[1] = 333
                 /\ eval.printed[5] = 667
                 /\ eval.printed_mrr = 444

C13_Witness ==
    /\ eval # Idle
    /\ eval.pc = "done"
    /\ eval.harness = "evaluate_search"
    /\ eval.ranks = <<1, 3, 0>>
    /\ eval.printed[1] = 333
    /\ eval.printed[3] = 667
    /\ eval.printed_mrr = 444

\* A search request that passed validation and got the embedder.
Searching ==
    /\ http # Idle
    /\ http.client = "api"
    /\ http.endpoint = "search"
    /\ http.valid
    /\ http.raised = None

\* C14: every element of the results of a search response served with
\* count() > 0 carries rubric_id, path, translation, chapter, remedy_count and
\* score as RubricEmbedder.search returned them for that hit, in the same
\* order, and total_in_collection is count().
C14_ResponseCarriesSearchResults ==
    (Searching /\ count(points) > 0) =>
        LET results == search(points, http.query, http.top_k)
        IN /\ http.response.status_code = HTTP_OK
           /\ http.response.body.results = results
           /\ http.response.body.total_in_collection = count(points)

\* C15: a search request (GET or POST) on an empty collection ends in the
\* not-ready error 503 and search is not called; on a collection that holds
\* points it ends in 200 with a result list of at least one and at most top_k
\* results; the page script on an empty collection warns and stops without
\* searching.
C15_NotReady ==
    /\ Searching =>
          IF count(points) = 0
          THEN /\ http.response.status_code = HTTP_NOT_READY
               /\ ~http.response.searched
               /\ "results" \notin DOMAIN http.response.body
          ELSE /\ http.response.status_code = HTTP_OK
               /\ http.response.searched
               /\ Len(http.response.body.results) \in 1 .. http.top_k
    /\ (http # Idle /\ http.client = "frontend") =>
          IF count(points) = 0
          THEN http.page.warning /\ http.page.stopped /\ ~http.page.searched
          ELSE ~http.page.warning /\ ~http.page.stopped

C15_Witness ==
    /\ Searching
    /\ http.method = "POST"
    /\ call.op = "clear"
    /\ before = 2
    /\ http.response.status_code = HTTP_NOT_READY

\* The LLM calls that are issued and have neither returned nor raised.
InFlight == {idx \in DOMAIN pipe.tasks : pipe.tasks[idx].pc = "calling"}

\* C16: in the async translation run and in the test-sentence generator the
\* LLM calls in flight are never more than the configured concurrency, and
\* they are the slots taken from the semaphore.
C16_BoundedInFlight ==
    (pipe # Idle /\ pipe.mode \in {"async", "generate"}) =>
        /\ Cardinality(InFlight) <= pipe.concurrency
        /\ Cardinality(InFlight) = pipe.concurrency - pipe.semaphore
        /\ pipe.semaphore >= 0

C16_Witness ==
    /\ pipe # Idle
    /\ pipe.mode = "generate"
    /\ Cardinality(InFlight) = CONCURRENT_REQUESTS
    /\ \E idx \in DOMAIN pipe.tasks : pipe.tasks[idx].pc = "waiting"

\* The selected rows of a finished run that were never sent to the LLM.
NeverSent == Range(pipe.work_items) \ Range(pipe.issued)

\* C17: when a translation run (async or --sync) is over and the LLM call of
\* some row has failed, every selected row has been sent to the LLM and is
\* counted as translated or as failed, and the saved spreadsheet holds the
\* translation of every row that is counted as translated.
C17_FailureDoesNotAbort ==
    (pipe # Idle /\ pipe.mode \in {"async", "sync"} /\ pipe.pc = "done"
        /\ pipe.errors > 0) =>
        /\ NeverSent = {}
        /\ pipe.translated + pipe.errors = Len(pipe.work_items)
        /\ pipe.translated
              = Cardinality({idx \in Range(pipe.work_items) :
                                pipe.saved[idx].translation = <<"modern", PathOf(idx)>>})

\* C18: with MRR a of the translation embeddings and b of the original ones,
\* in steps of 1/MrrSteps, the script prints one verdict: translation wins
\* exactly when a > 1.05 b (100 a > 105 b), original wins exactly when that
\* fails and b > 1.05 a, otherwise the two are similar; never a > 1.05 b and
\* b > 1.05 a together.
C18_ComparisonRule ==
    cmp # Idle =>
        LET a == cmp.translation_mrr.num
            b == cmp.original_mrr.num
        IN /\ Len(cmp.printed) = 1
           /\ cmp.printed[1] = "Winner: Translation embeddings perform better"
                 <=> 100 * a > 105 * b
           /\ cmp.printed[1] = "Winner: Original path embeddings perform better"
                 <=> (~(100 * a > 105 * b) /\ 100 * b > 105 * a)
           /\ cmp.printed[1] = "Result: Performance is similar (within 5%)"
                 <=> (~(100 * a > 105 * b) /\ ~(100 * b > 105 * a))
           /\ ~(100 * a > 105 * b /\ 100 * b > 105 * a)

C18_Witness ==
    /\ cmp # Idle
    /\ cmp.translation_mrr = Fraction(21, MrrSteps)
    /\ cmp.original_mrr = Fraction(20, MrrSteps)
    /\ cmp.printed = <<"Result: Performance is similar (within 5%)">>

\* The batches add_rubrics cuts a list of records into.
RECURSIVE Batches(_)
Batches(rubrics) ==
    IF rubrics = <<>> THEN <<>>
    ELSE <<SubSeq(rubrics, 1, Min(BATCH_SIZE, Len(rubrics)))>>
         \o Batches(SubSeq(rubrics, Min(BATCH_SIZE, Len(rubrics)) + 1, Len(rubrics)))
\* The records of the first n batches, in order.
RECURSIVE Flatten(_, _)
Flatten(batches, n) == IF n = 0 THEN <<>> ELSE Flatten(batches, n - 1) \o batches[n]
\* The store after this process has upserted `rubrics` onto pts.
After(pts, h, rubrics, text_field) ==
    upsert(pts, [i \in DOMAIN rubrics |-> PointStruct(h, rubrics[i], text_field)])
\* The batch whose embedding or upsert request raised (0: none did), and the
\* kind of that request.
FailedRequest(r) == r.requests[r.fault.at]
FailedBatch(r) ==
    IF r.fault.at > 0 /\ FailedRequest(r).kind \in {"encode", "upsert"}
    THEN (FailedRequest(r).arg[1] - 1) \div BATCH_SIZE + 1
    ELSE 0

\* C19 as claimed: when the embedding or the upsert request of batch j raises,
\* the store holds what it held before the call with the batches before j
\* upserted onto it and nothing of batch j or of a later batch, no count is
\* returned and the exception reaches the caller.
C19_FailureKeepsEarlierBatchesOnly ==
    (run.pc = "add_rubrics" /\ FailedBatch(run) > 0) =>
        /\ points = After(run.prior, hashOf,
                          Flatten(Batches(Todo(run)), FailedBatch(run) - 1), run.text_field)
        /\ run.returned = NoValue
        /\ run.raised = run.fault.error

\* C19, amended: when the embedding or the upsert request of batch j raises,
\* the store holds what it held before the call with the batches before j
\* upserted onto it, and nothing of a later batch; of batch j it holds nothing
\* when the embedding request raised, and the leading points the store had
\* written (none, some or all of the batch) when the upsert request raised.
\* No count is returned and the exception reaches the caller.
C19_NoRollback ==
    (run.pc = "add_rubrics" /\ FailedBatch(run) > 0) =>
        LET batches == Batches(Todo(run))
            j == FailedBatch(run)
            earlier == Flatten(batches, j - 1)
            written == IF FailedRequest(run).kind = "upsert"
                       THEN SubSeq(batches[j], 1, run.fault.applied)
                       ELSE <<>>
        IN /\ run.fault.applied <= Len(batches[j])
           /\ points = After(run.prior, hashOf, earlier \o written, run.text_field)
           /\ \A p \in DOMAIN points \ DOMAIN run.prior :
                 p \in PointIdsOf(hashOf, earlier \o written)
           /\ run.returned = NoValue
           /\ run.raised = run.fault.error

C19_Witness ==
    /\ run.pc = "add_rubrics"
    /\ FailedBatch(run) = 2
    /\ FailedRequest(run).kind = "encode"
    /\ run.prior = NoPoints
    /\ count(points) = 2
    /\ run.rubrics = <<Rubric1, Rubric2, Rubric1b>>
    /\ run.returned = NoValue

\* The requests a call issues when none of them raises.
Planned(r) ==
    IF r.pc = "add_rubrics"
    THEN add_rubricsRun(r.prior, hashOf, r.rubrics, r.skip_existing, r.text_field,
                        NoFault).requests
    ELSE searchRun(r.prior, r.query, r.top_k, NoFault).requests

\* C20: within one add_rubrics or search call no request to the embedding
\* provider or to the store is issued twice; when a request raises, the
\* requests issued are the planned ones up to and including that request and
\* none after it, the call returns no value and raises that exception; when
\* none raises, every planned request is issued once.
C20_NoRetry ==
    run # Idle =>
        /\ \A i, j \in DOMAIN run.requests : run.requests[i] = run.requests[j] => i = j
        /\ IF run.fault.at > 0
           THEN /\ run.requests = SubSeq(Planned(run), 1, run.fault.at)
                /\ run.raised = run.fault.error
                /\ run.raised \in Failures
                /\ run.returned = NoValue
           ELSE /\ run.requests = Planned(run)
                /\ run.raised = None
                /\ run.returned # NoValue

C20_Witness ==
    /\ run # Idle
    /\ run.pc = "search"
    /\ run.fault.at = 2
    /\ run.raised = "TimeoutError"
    /\ run.requests = <<Request("encode", <<>>), Request("get_collection", <<>>)>>
    /\ count(points) = 2

\* The scan loop of get_existing_ids with pages of `limit` points: the ids
\* gathered and the number of pages asked for.
RECURSIVE FollowCursor(_, _, _, _, _)
FollowCursor(pts, limit, offset, ids, pages) ==
    LET page == scroll(pts, limit, offset)
        more == ids \o [i \in DOMAIN page.result |-> page.result[i].payload.rubric_id]
    IN IF page.offset = NoOffset THEN [ids |-> more, pages |-> pages + 1]
       ELSE FollowCursor(pts, limit, page.offset, more, pages + 1)
\* How often id occurs in a sequence of ids, and among the stored points.
Occurrences(ids, id) == Cardinality({i \in DOMAIN ids : ids[i] = id})
PointsWith(pts, id) == Cardinality({p \in DOMAIN pts : pts[p].payload.rubric_id = id})
Ceiling(n, d) == (n + d - 1) \div d

\* C21: get_existing_ids returns one rubric id per stored point, each id as
\* often as points carry it: nothing on an empty collection, and otherwise
\* the ids of all pages, the pages being as many as the points take
\* (count / page size, rounded up).  The same loop with any page size, the
\* collection below, at or above a multiple of it, returns the same ids.
C21_CompleteScan ==
    call.op = "get_existing_ids" =>
        /\ Len(ret) = count(points)
        /\ \A id \in Ids : Occurrences(ret, id) = PointsWith(points, id)
        /\ LET requests == get_existing_idsRun(points, NoFault, <<>>).requests
           IN Len(requests) = 1 + Ceiling(count(points), SCROLL_LIMIT)
        /\ count(points) > 0 =>
              \A limit \in 1 .. MaxPoints + 1 :
                  LET scan == FollowCursor(points, limit, NoOffset, <<>>, 0)
                  IN scan.ids = ret /\ scan.pages = Ceiling(count(points), limit)

C21_Witness ==
    /\ call.op = "get_existing_ids"
    /\ count(points) = 3
    /\ Len(ret) = 3
    /\ Occurrences(ret, "1") = 2
    /\ FollowCursor(points, 2, NoOffset, <<>>, 0).pages = 2

\* C22: constructing a RubricEmbedder over a store that has the collection
\* creates nothing and leaves the collections and every stored point as they
\* were, so count() is the same after any number of constructions; over a
\* store without it the collection is created, and after every construction
\* the collection has vector size 384 and cosine distance.
C22_EnsureCollectionIdempotent ==
    [][call'.op = "__init__" =>
          /\ DEFAULT_COLLECTION \in DOMAIN collections' 
          /\ collections'[DEFAULT_COLLECTION] = [size |-> 384, distance |-> "Cosine"]
          /\ call'.created = (DEFAULT_COLLECTION \notin DOMAIN collections)
          /\ DEFAULT_COLLECTION \in DOMAIN collections =>
                /\ collections' = collections
                /\ points' = points
                /\ count(points') = count(points)
                /\ _ensure_collection(collections') = collections']_vars

C22_Witness ==
    /\ call.op = "__init__"
    /\ ~call.created
    /\ before = 2
    /\ count(points) = 2

\* The requests of one kind among the requests of a call, in order.
OfKind(requests, kind) == SelectSeq(requests, LAMBDA q : q.kind = kind)
\* The indices of the remaining records a request carries.
Carried(q) == q.arg[1] .. q.arg[1] + q.arg[2] - 1
\* A sequence of requests carries consecutive slices of records 1 .. n: the
\* first from record 1, each next one from where the one before ended.
InOrderSlices(requests, n) ==
    /\ \A k \in DOMAIN requests :
          /\ requests[k].arg[1] = IF k = 1 THEN 1
                                  ELSE requests[k - 1].arg[1] + requests[k - 1].arg[2]
          /\ requests[k].arg[2] >= 1
          /\ requests[k].arg[1] + requests[k].arg[2] - 1 <= n

\* C23: every encode and every upsert request of add_rubrics carries at most
\* BATCH_SIZE records, also in a call that a failure ends; the batches are
\* consecutive slices of the records left by the skip_existing filter, each
\* embedded and then upserted; and in a call that returns, every remaining
\* record is in exactly one encode and exactly one upsert request.
C23_BoundedBatching ==
    run.pc = "add_rubrics" =>
        LET encodes == OfKind(run.requests, "encode")
            upserts == OfKind(run.requests, "upsert")
            n == Len(Todo(run))
        IN /\ \A k \in DOMAIN run.requests :
                 run.requests[k].kind \in {"encode", "upsert"} =>
                     /\ run.requests[k].arg[2] <= BATCH_SIZE
                     /\ run.requests[k].kind = "upsert" =>
                           /\ k > 1
                           /\ run.requests[k - 1] = Request("encode", run.requests[k].arg)
           /\ InOrderSlices(encodes, n)
           /\ InOrderSlices(upserts, n)
           /\ run.raised = None =>
                 /\ Len(encodes) = Len(upserts)
                 /\ \A i \in 1 .. n :
                       /\ Cardinality({k \in DOMAIN encodes : i \in Carried(encodes[k])}) = 1
                       /\ Cardinality({k \in DOMAIN upserts : i \in Carried(upserts[k])}) = 1
                 /\ run.returned = <<n>>

C23_Witness ==
    /\ run.pc = "add_rubrics"
    /\ run.raised = None
    /\ run.skip_existing
    /\ Len(run.rubrics) = 3
    /\ Len(Todo(run)) = 3
    /\ OfKind(run.requests, "upsert")
          = <<Request("upsert", <<1, BATCH_SIZE>>), Request("upsert", <<BATCH_SIZE + 1, 1>>)>>

\* A search request of the API, accepted or not.
SearchRequested == http # Idle /\ http.client = "api" /\ http.endpoint = "search"

\* C24: GET /search and POST /search alike accept a request exactly when
\* top_k is left out (it is then 10) or is an integer from 1 to 100; an
\* accepted request runs the search with that top_k; a request with any
\* other top_k is answered 422 with neither get_embedder, count nor search
\* called.
C24_TopKValidation ==
    SearchRequested =>
        /\ http.valid = (~http.raw.given
                            \/ (http.raw.integer /\ http.raw.value \in 1 .. 100))
        /\ http.valid =>
              /\ http.top_k = IF http.raw.given THEN http.raw.value ELSE 10
              /\ http.top_k \in 1 .. 100
              /\ http.raised = None =>
                    /\ http.response.counted
                    /\ http.response.status_code \in {HTTP_OK, HTTP_NOT_READY}
                    /\ http.response.searched =>
                          Len(http.response.body.results) = Min(http.top_k, count(points))
        /\ ~http.valid =>
              /\ http.response.status_code = HTTP_UNPROCESSABLE
              /\ ~http.response.counted
              /\ ~http.response.searched
              /\ http.instance = NoInstance
              /\ ~http.constructed

C24_Witness ==
    /\ SearchRequested
    /\ http.method = "GET"
    /\ http.raw = [given |-> TRUE, integer |-> TRUE, value |-> TOP_K_MAX + 1]
    /\ count(points) = 2
    /\ app._embedder # NoInstance
    /\ http.response.status_code = HTTP_UNPROCESSABLE

\* A request or the startup of the API that called get_embedder.
GotEmbedder ==
    /\ http # Idle
    /\ http.client = "api"
    /\ http.endpoint = "search" => http.valid

\* C25: in one API process at most one RubricEmbedder is ever constructed
\* successfully, it is the cached one, and startup and every health or
\* search request that gets an embedder gets that one; a call that finds an
\* instance cached constructs nothing; a call that finds none attempts a
\* construction, also after earlier attempts have raised, and when the
\* construction raises nothing is cached.
C25_SingletonEmbedder ==
    /\ app.constructed <= 1
    /\ app._embedder = IF app.constructed = 0 THEN NoInstance ELSE <<1>>
    /\ GotEmbedder =>
          /\ http.raised = None => http.instance = <<1>> /\ app._embedder = <<1>>
          /\ http.cached # NoInstance =>
                ~http.constructed /\ http.raised = None /\ http.instance = http.cached
          /\ http.cached = NoInstance => (http.constructed \/ http.raised # None)
          /\ http.raised # None =>
                /\ app._embedder = NoInstance
                /\ http.instance = NoInstance
                /\ http.endpoint # "startup" => http.response.status_code = HTTP_SERVER_ERROR

C25_Witness ==
    /\ GotEmbedder
    /\ http.endpoint = "health"
    /\ app.failed = MaxFailures
    /\ http.constructed
    /\ http.instance = <<1>>

\* The points that hold the records an add_rubrics call had to upsert.
PointOfRecord(r, i) == PointId(hashOf, Todo(r)[i].id)

Untranslated(df) == {idx \in Rows : df[idx].translation = NaN \/ df[idx].translation = ""}
FirstRows(rows, n) == {idx \in rows : Cardinality({j \in rows : j < idx}) < n}

\* C27: a translation run (async or --sync) selects the rows whose
\* translation is missing or empty, all of them without a limit and the
\* first `limit` of them with one; only selected rows are sent to the LLM,
\* and a row that had a translation when the spreadsheet was loaded is not
\* sent and has the cells it had, in memory and in the saved file.
C27_IncrementalTranslation ==
    (pipe # Idle /\ pipe.mode \in {"async", "sync"}) =>
        /\ Range(pipe.work_items)
              = IF pipe.limit = NoValue THEN Untranslated(pipe.loaded)
                ELSE FirstRows(Untranslated(pipe.loaded), pipe.limit[1])
        /\ Range(pipe.issued) \subseteq Range(pipe.work_items)
        /\ \A idx \in Rows \ Untranslated(pipe.loaded) :
              /\ idx \notin Range(pipe.issued)
              /\ pipe.df[idx] = pipe.loaded[idx]
              /\ pipe.saved[idx] = pipe.loaded[idx]

\* The cells of row idx once the answer to the call issued for row idx is
\* written to it: translation and test sentences in a translation run, test
\* sentences in the generator.
Answered(mode, idx, row) ==
    IF mode = "generate" THEN [test_1 |-> <<"patient", PathOf(idx)>>] @@ row
    ELSE [translation |-> <<"modern", PathOf(idx)>>, test_1 |-> <<"patient", PathOf(idx)>>] @@ row
\* The task of row idx has ended with an answer.
HasAnswer(tasks, idx) ==
    /\ idx \in DOMAIN tasks
    /\ tasks[idx].pc = "done"
    /\ ~IsException(tasks[idx].result)

\* C28: in the async translation run and in the generator, in whatever order
\* the LLM calls are issued and complete, no row is sent to the LLM twice,
\* and a step that writes rows writes to each row whose call has ended with
\* an answer the parsed answer to that row's own call, and leaves every other
\* row, the rows whose call raised included, as it was; a row written once
\* is not written again.
C28_ResultAttribution ==
    [][(pipe # Idle /\ pipe.mode \in {"async", "generate"} /\ pipe' # Idle) =>
          /\ \A i, j \in DOMAIN pipe'.issued : pipe'.issued[i] = pipe'.issued[j] => i = j
          /\ \A i, j \in DOMAIN pipe'.results :
                pipe'.results[i][1] = pipe'.results[j][1] => i = j
          /\ pipe'.df # pipe.df =>
                /\ AllDone(pipe.tasks)
                /\ \A idx \in Rows :
                      pipe'.df[idx] = IF HasAnswer(pipe.tasks, idx)
                                      THEN Answered(pipe.mode, idx, pipe.df[idx])
                                      ELSE pipe.df[idx]
                /\ \A idx \in DOMAIN pipe.tasks : pipe.df[idx] = pipe.loaded[idx]
                /\ pipe'.saved = pipe'.df
                /\ pipe'.translated + pipe'.errors
                      = pipe.translated + pipe.errors + Cardinality(DOMAIN pipe.tasks)]_vars

\* The generator has applied its results: row 1 was sent first and answered
\* last, the call of another row raised.
C28_Witness ==
    /\ pipe # Idle
    /\ pipe.mode = "generate"
    /\ pipe.pc = "done"
    /\ pipe.issued[1] = 1
    /\ pipe.results[MaxRows][1] = 1
    /\ \E idx \in Rows : pipe.tasks[idx].result = APIError /\ pipe.df[idx] = pipe.loaded[idx]
    /\ pipe.df[1] = Answered("generate", 1, pipe.loaded[1])
    /\ pipe.df[1] # pipe.loaded[1]

\* The async translation run, and in it the task of row idx at a stage.
AsyncRun == pipe # Idle /\ pipe.mode = "async"
TaskAt(idx, stages) ==
    /\ AsyncRun
    /\ idx \in DOMAIN pipe.tasks
    /\ pipe.tasks[idx].pc \in stages

\* C29: in the async translation run, every LLM call returning or raising in
\* the end, every task that waits for the semaphore gets a slot, every call
\* in flight ends and its slot is free again when the batch is gathered,
\* every gather completes, and the run ends with translated + errors equal
\* to the number of selected rows.
C29_AdmissionLiveness ==
    /\ \A idx \in Rows : TaskAt(idx, {"waiting"}) ~> TaskAt(idx, {"calling", "done"})
    /\ \A idx \in Rows : TaskAt(idx, {"calling"}) ~> TaskAt(idx, {"done"})
    /\ (AsyncRun /\ pipe.pc = "gather")
          ~> (AsyncRun /\ pipe.pc = "loop" /\ pipe.semaphore = pipe.concurrency)
    /\ AsyncRun
          ~> (AsyncRun /\ pipe.pc = "done"
                /\ pipe.translated + pipe.errors = Len(pipe.work_items))

\* The counters of the harness in the order the claim compares them:
\* evaluate_search counts Hit@1, 3, 5, 10, evaluate_collection Hit@1, 5, 10.
HitCounters(e) ==
    IF e.harness = "evaluate_search"
    THEN <<e.hits_at_1, e.hits_at_3, e.hits_at_5, e.hits_at_10>>
    ELSE <<e.hits_at_1, e.hits_at_5, e.hits_at_10>>
Zero(x) == x.num = 0 /\ x.den # 0

\* C30: at every point of the evaluation loop the hit counters are ordered,
\* hits_at_1 <= hits_at_3 <= hits_at_5 <= hits_at_10 <= total_queries, and
\* reciprocal_ranks has one entry per query; a test cell that is missing or
\* blank changes no counter and no list, any other cell is one more query;
\* and a report with total_queries = 0 gives 0 for every Hit@K, for MRR and
\* for the average score, each without a division (by 0).
C30_CounterInvariant ==
    [][eval' # Idle =>
          /\ \A k \in 1 .. Len(HitCounters(eval')) - 1 :
                HitCounters(eval')[k] <= HitCounters(eval')[k + 1]
          /\ eval'.hits_at_1 >= 0
          /\ eval'.hits_at_10 <= eval'.total_queries
          /\ Len(eval'.reciprocal_ranks) = eval'.total_queries
          /\ Len(eval'.scores_when_found) <= eval'.total_queries
          /\ (eval # Idle /\ eval'.cells = eval.cells + 1) =>
                IF eval'.cell \in {NaN, "   "}
                THEN /\ eval'.total_queries = eval.total_queries
                     /\ HitCounters(eval') = HitCounters(eval)
                     /\ eval'.reciprocal_ranks = eval.reciprocal_ranks
                     /\ eval'.scores_when_found = eval.scores_when_found
                ELSE /\ eval'.total_queries = eval.total_queries + 1
                     /\ Len(eval'.reciprocal_ranks) = Len(eval.reciprocal_ranks) + 1
          /\ (eval'.pc = "done" /\ eval'.total_queries = 0) =>
                /\ \A K \in DOMAIN eval'.metrics :
                      Zero(eval'.metrics[K]) /\ eval'.printed[K] = 0
                /\ Zero(eval'.mrr)
                /\ eval'.printed_mrr = 0
                /\ eval'.harness = "evaluate_search" => Zero(eval'.avg_score)]_vars

\* The report of a run in which every test cell was blank, the last one
\* made of spaces.
C30_Witness ==
    /\ eval # Idle
    /\ eval.harness = "evaluate_search"
    /\ eval.pc = "done"
    /\ eval.cells = MaxCells
    /\ eval.cell = "   "
    /\ eval.total_queries = 0
    /\ eval.printed = [K \in {1, 3, 5, 10} |-> 0]

====
